---- MODULE Spec2Model ----
(***************************************************************************)
(* Model of jax/_src/lax/convolution.py: the public convolution call,     *)
(* the shape rule run at bind, the two transpose (gradient) rules and the  *)
(* batching rule.  A shape is a sequence of sizes; axis numbers are        *)
(* 0-based as in the source, so axis a of a shape s is s[a + 1].  The      *)
(* rules run on arrays: traced ones, of which only the shape is known, in  *)
(* the operations, and ones with elements in the properties about values.  *)
(***************************************************************************)
EXTENDS Integers, Sequences, FiniteSets, TLC

VARIABLES pc, call, batch, canonicalized, node, rule, result

vars == <<pc, call, batch, canonicalized, node, rule, result>>

----------------------------------------------------------------------------
(* Bounds of the explored input space.                                     *)

MaxIn == 3
MaxKernel == 2
MaxStride == 2
MaxPad == 1
MaxFeat == 2
MaxGroup == 2
MaxBatch == 2

----------------------------------------------------------------------------
(* Sequence helpers: numpy's take, argsort, delete and insert on shapes.   *)

Max(a, b) == IF a >= b THEN a ELSE b

Ones(n) == [i \in 1..n |-> 1]

Iota(n) == [i \in 1..n |-> i - 1]

\* np.take(shape, perm): element i is shape[perm[i]] (0-based axes).
Take(shape, perm) == [i \in 1..Len(perm) |-> shape[perm[i] + 1]]

\* np.argsort(perm) of a permutation: the inverse permutation.
ArgSort(perm) ==
  [j \in 1..Len(perm) |-> (CHOOSE i \in 1..Len(perm) : perm[i] = j - 1) - 1]

\* spec[2:]
Sdims(spec) == SubSeq(spec, 3, Len(spec))

\* np.delete(shape, src)
Delete(shape, src) ==
  SubSeq(shape, 1, src) \o SubSeq(shape, src + 2, Len(shape))

\* np.insert(shape, pos, k) and list.insert(pos, k)
Insert(shape, pos, k) ==
  SubSeq(shape, 1, pos) \o <<k>> \o SubSeq(shape, pos + 1, Len(shape))

Front(s) == SubSeq(s, 1, Len(s) - 1)

Last(s) == s[Len(s)]

Prod(shape) ==
  LET F[i \in 0..Len(shape)] == IF i = 0 THEN 1 ELSE shape[i] * F[i - 1]
  IN  F[Len(shape)]

IsPerm(spec, n) ==
  /\ Len(spec) = n
  /\ \A a \in 0..(n - 1) : \E i \in 1..n : spec[i] = a

----------------------------------------------------------------------------
(* Results of a computation that may raise.                                *)

Ok(shape) == [ok |-> TRUE, shape |-> shape, err |-> ""]

Raise(kind) == [ok |-> FALSE, shape |-> <<>>, err |-> kind]

----------------------------------------------------------------------------
(* Shape and padding algebra.                                              *)

\* core.dilate_shape on one axis.
DilateDim(d, dilation) == IF d = 0 THEN 0 ELSE 1 + dilation * (d - 1)

\* lax._dilate_shape: the dilation is left-padded with ones to the rank.
DilateShape(shape, dilation) ==
  LET lead == Len(shape) - Len(dilation)
  IN  [i \in 1..Len(shape) |->
         DilateDim(shape[i], IF i <= lead THEN 1 ELSE dilation[i - lead])]

\* core.stride_shape on one axis.
StrideDim(d, window_size, window_stride) ==
  ((d - window_size) \div window_stride) + 1

CeilDiv(a, b) == -((-a) \div b)

\* lax.padtype_to_pads on one axis.
PadtypeToPad(in_size, window_size, window_stride, mode) ==
  IF mode = "SAME"
  THEN LET out_size == CeilDiv(in_size, window_stride)
           pad_size == Max(0, (out_size - 1) * window_stride
                              + window_size - in_size)
       IN  <<pad_size \div 2, pad_size - (pad_size \div 2)>>
  ELSE <<0, 0>>

PadtypeToPads(in_shape, window_shape, window_strides, mode) ==
  [i \in 1..Len(in_shape) |->
     PadtypeToPad(in_shape[i], window_shape[i], window_strides[i], mode)]

\* np.maximum(0, out_space) forgotten: a negative size escapes.
NoClamp(out_space) == out_space

\* conv_shape_tuple: out_space = np.maximum(0, out_space).
ClampOutSpace(out_space) == Max(0, out_space)

\* conv_shape_tuple: the batch entry of the result.
OutShape0(lhs_batch, batch_group_count) ==
  IF batch_group_count > 1
  THEN lhs_batch \div batch_group_count
  ELSE lhs_batch

\* conv_shape_tuple, operands in canonical order and explicit pads.
ConvShapeTuple(lhs_shape, rhs_shape, strides, pads, batch_group_count) ==
  IF Len(pads) # Len(lhs_shape) - 2
  THEN Raise("TypeError")
  ELSE IF batch_group_count > 1 /\ lhs_shape[1] % batch_group_count # 0
  THEN Raise("AssertionError")
  ELSE Ok(<<OutShape0(lhs_shape[1], batch_group_count), rhs_shape[1]>>
          \o [i \in 1..(Len(lhs_shape) - 2) |->
                ClampOutSpace(
                  StrideDim(lhs_shape[i + 2] + pads[i][1] + pads[i][2],
                            rhs_shape[i + 2], strides[i]))])

----------------------------------------------------------------------------
(* The shape rule of the primitive, run when the primitive is bound.       *)

\* np.take(out_trans, out_perm): the permutation applied instead of inverted.
PermuteOutForward(out_trans, out_perm) == Take(out_trans, out_perm)

\* np.take(out_trans, np.argsort(out_perm))
PermuteOut(out_trans, out_perm) == Take(out_trans, ArgSort(out_perm))

\* The feature-group checks with the quotient comparison dropped.
FeatureGroupCheckNoQuot(lhs_feature_count, rhs_in, rhs_out, feature_group_count) ==
  IF ~(feature_group_count > 0) THEN "ValueError: feature_group_count not positive"
  ELSE IF lhs_feature_count % feature_group_count # 0
  THEN "ValueError: feature_group_count must divide lhs feature"
  ELSE IF rhs_out % feature_group_count # 0
  THEN "ValueError: rhs output feature not a multiple of feature_group_count"
  ELSE ""

\* _conv_general_dilated_shape_rule: the checks on feature_group_count.
FeatureGroupCheck(lhs_feature_count, rhs_in, rhs_out, feature_group_count) ==
  IF ~(feature_group_count > 0) THEN "ValueError: feature_group_count not positive"
  ELSE IF lhs_feature_count % feature_group_count # 0
  THEN "ValueError: feature_group_count must divide lhs feature"
  ELSE IF (lhs_feature_count \div feature_group_count) # rhs_in
  THEN "ValueError: lhs feature / feature_group_count != rhs input feature"
  ELSE IF rhs_out % feature_group_count # 0
  THEN "ValueError: rhs output feature not a multiple of feature_group_count"
  ELSE ""

\* The batch-group checks without the test that at most one count exceeds 1.
BatchGroupCheckBothAllowed(lhs_batch_count, rhs_out, feature_group_count, batch_group_count) ==
  IF ~(batch_group_count > 0) THEN "ValueError: batch_group_count not positive"
  ELSE IF batch_group_count > 1 /\ lhs_batch_count % batch_group_count # 0
  THEN "ValueError: batch_group_count must divide lhs batch"
  ELSE IF rhs_out % batch_group_count # 0
  THEN "ValueError: rhs output feature not a multiple of batch_group_count"
  ELSE ""

\* _conv_general_dilated_shape_rule: the checks on batch_group_count.
BatchGroupCheck(lhs_batch_count, rhs_out, feature_group_count, batch_group_count) ==
  IF ~(batch_group_count > 0) THEN "ValueError: batch_group_count not positive"
  ELSE IF batch_group_count > 1 /\ lhs_batch_count % batch_group_count # 0
  THEN "ValueError: batch_group_count must divide lhs batch"
  ELSE IF rhs_out % batch_group_count # 0
  THEN "ValueError: rhs output feature not a multiple of batch_group_count"
  ELSE IF batch_group_count > 1 /\ feature_group_count > 1
  THEN "ValueError: at most one of the group counts may be > 1"
  ELSE ""

\* _conv_general_dilated_shape_rule.  p carries the keyword parameters.
ShapeRule(lhs_shape, rhs_shape, p) ==
  LET dn == p.dimension_numbers
  IN
  IF Len(lhs_shape) # Len(rhs_shape)
  THEN Raise("ValueError: lhs and rhs must have the same number of dimensions")
  ELSE
  LET fcheck == FeatureGroupCheck(lhs_shape[dn.lhs_spec[2] + 1],
                                  rhs_shape[dn.rhs_spec[2] + 1],
                                  rhs_shape[dn.rhs_spec[1] + 1],
                                  p.feature_group_count)
  IN
  IF fcheck # "" THEN Raise(fcheck)
  ELSE
  LET bcheck == BatchGroupCheck(lhs_shape[dn.lhs_spec[1] + 1],
                                rhs_shape[dn.rhs_spec[1] + 1],
                                p.feature_group_count, p.batch_group_count)
  IN
  IF bcheck # "" THEN Raise(bcheck)
  ELSE IF Len(Sdims(dn.rhs_spec)) # Len(p.window_strides)
  THEN Raise("ValueError: window and window_strides differ in length")
  ELSE
  LET lhs_trans == DilateShape(Take(lhs_shape, dn.lhs_spec), p.lhs_dilation)
      rhs_trans == DilateShape(Take(rhs_shape, dn.rhs_spec), p.rhs_dilation)
      out_trans == ConvShapeTuple(lhs_trans, rhs_trans, p.window_strides,
                                  p.padding, p.batch_group_count)
  IN  IF out_trans.ok
      THEN Ok(PermuteOut(out_trans.shape, dn.out_spec))
      ELSE out_trans

----------------------------------------------------------------------------
(* Dimension numbers.  The dimension_numbers argument is a record whose     *)
(* form is "none" (None), "canonical" (a ConvDimensionNumbers), "sequence"  *)
(* (a list or tuple, of the elements elts) or "other" (anything else).  An  *)
(* element is a string, the sequence of its characters, or not a string.    *)

DimNums(lhs_spec, rhs_spec, out_spec) ==
  [form |-> "canonical", lhs_spec |-> lhs_spec, rhs_spec |-> rhs_spec,
   out_spec |-> out_spec, elts |-> <<>>]

DimNumsNone ==
  [form |-> "none", lhs_spec |-> <<>>, rhs_spec |-> <<>>, out_spec |-> <<>>,
   elts |-> <<>>]

DimNumsSeq(elts) == [DimNumsNone EXCEPT !.form = "sequence", !.elts = elts]

DimNumsOther == [DimNumsNone EXCEPT !.form = "other"]

Str(chars) == [is_str |-> TRUE, chars |-> chars]

NotStr == [is_str |-> FALSE, chars |-> <<>>]

\* The triple of strings lhs, rhs, out, each written as its characters.
DimNumsStr(lhs, rhs, out) == DimNumsSeq(<<Str(lhs), Str(rhs), Str(out)>>)

NoDimNums == [ok |-> FALSE, dn |-> DimNumsNone, err |-> ""]

DimNumsError(err) == [NoDimNums EXCEPT !.err = err]

\* str.count
Count(spec, c) == Cardinality({i \in 1..Len(spec) : spec[i] = c})

\* The axis counted from one.
IndexFromOne(spec, c) ==
  CHOOSE i \in 1..Len(spec) :
    spec[i] = c /\ \A j \in 1..(i - 1) : spec[j] # c

\* str.index: the first axis (0-based) that carries c.
Index(spec, c) ==
  (CHOOSE i \in 1..Len(spec) :
     spec[i] = c /\ \A j \in 1..(i - 1) : spec[j] # c) - 1

\* set(spec)
CharSet(spec) == {spec[i] : i \in 1..Len(spec)}

\* sorted(items, key=...): items in increasing order of their keys, items
\* of equal key in their given order.
SortedByKey(items, keys) ==
  LET Before(a, b) == keys[a] < keys[b] \/ (keys[a] = keys[b] /\ a < b)
      Rank(a) == Cardinality({b \in 1..Len(items) : Before(b, a)}) + 1
  IN  [r \in 1..Len(items) |->
         items[CHOOSE a \in 1..Len(items) : Rank(a) = r]]

\* The axes (0-based) of spec whose character is not in charpair, in order.
SpatialAxes(spec, charpair) ==
  LET F[i \in 0..Len(spec)] ==
        IF i = 0 THEN <<>>
        ELSE IF spec[i] \in CharSet(charpair) THEN F[i - 1]
        ELSE Append(F[i - 1], i - 1)
  IN  F[Len(spec)]

\* getperm with the spatial axes of lhs and out left in their own order.
GetPermOwnOrder(spec, charpair, rhs_spec, is_rhs) ==
  <<Index(spec, charpair[1]), Index(spec, charpair[2])>>
    \o SpatialAxes(spec, charpair)

\* conv_general_permutations.getperm
GetPerm(spec, charpair, rhs_spec, is_rhs) ==
  LET spatial == SpatialAxes(spec, charpair)
      sorted == IF is_rhs THEN spatial
                ELSE SortedByKey(spatial,
                                 [j \in 1..Len(spatial) |->
                                    Index(rhs_spec, spec[spatial[j] + 1])])
  IN  <<Index(spec, charpair[1]), Index(spec, charpair[2])>> \o sorted

CharPairs == << <<"N", "C">>, <<"O", "I">>, <<"N", "C">> >>

\* The first of the three strings whose check fails, 0 when none does.
FirstBad(Bad) ==
  IF \E i \in 1..3 : Bad[i]
  THEN CHOOSE i \in 1..3 : Bad[i] /\ \A j \in 1..(i - 1) : ~Bad[j]
  ELSE 0

\* The duplicate check left out.
NeverHasDuplicates(spec) == FALSE

\* conv_general_permutations: len(spec) != len(set(spec))
HasDuplicates(spec) == Len(spec) # Cardinality(CharSet(spec))

\* conv_general_permutations: the three sets of spatial characters agree.
SameSpatialChars(lhs_spec, rhs_spec, out_spec) ==
  /\ CharSet(lhs_spec) \ CharSet(CharPairs[1])
       = CharSet(rhs_spec) \ CharSet(CharPairs[2])
  /\ CharSet(rhs_spec) \ CharSet(CharPairs[2])
       = CharSet(out_spec) \ CharSet(CharPairs[3])

\* conv_general_permutations: each string in turn is checked for its two
\* reserved characters and for duplicates, then the spatial sets compared.
ConvGeneralPermutations(dimension_numbers) ==
  LET lhs_spec == dimension_numbers[1]
      rhs_spec == dimension_numbers[2]
      out_spec == dimension_numbers[3]
      bad_count == [i \in 1..3 |->
                      ~(Count(dimension_numbers[i], CharPairs[i][1]) = 1
                        /\ Count(dimension_numbers[i], CharPairs[i][2]) = 1)]
      bad_dup == [i \in 1..3 |-> HasDuplicates(dimension_numbers[i])]
      first == FirstBad([i \in 1..3 |-> bad_count[i] \/ bad_dup[i]])
  IN
  IF first # 0 /\ bad_count[first]
  THEN DimNumsError("TypeError: must contain the characters exactly once")
  ELSE IF first # 0
  THEN DimNumsError("TypeError: cannot have duplicate characters")
  ELSE IF ~SameSpatialChars(lhs_spec, rhs_spec, out_spec)
  THEN DimNumsError("TypeError: must each have the same set of spatial characters")
  ELSE [ok |-> TRUE,
        dn |-> DimNums(GetPerm(lhs_spec, CharPairs[1], rhs_spec, FALSE),
                       GetPerm(rhs_spec, CharPairs[2], rhs_spec, TRUE),
                       GetPerm(out_spec, CharPairs[3], rhs_spec, FALSE)),
        err |-> ""]

\* The rank check left out.
RanksNeverDiffer(lhs_shape, rhs_shape) == FALSE

\* conv_dimension_numbers: len(lhs_shape) != len(rhs_shape)
RanksDiffer(lhs_shape, rhs_shape) == Len(lhs_shape) # Len(rhs_shape)

\* conv_dimension_numbers
ConvDimensionNumbers(lhs_shape, rhs_shape, dimension_numbers) ==
  IF dimension_numbers.form = "canonical"
  THEN [ok |-> TRUE, dn |-> dimension_numbers, err |-> ""]
  ELSE IF RanksDiffer(lhs_shape, rhs_shape)
  THEN DimNumsError("TypeError: lhs and rhs ndim must be equal")
  ELSE IF dimension_numbers.form = "none"
  THEN [ok |-> TRUE,
        dn |-> DimNums(Iota(Len(lhs_shape)), Iota(Len(lhs_shape)),
                       Iota(Len(lhs_shape))),
        err |-> ""]
  ELSE IF dimension_numbers.form = "sequence"
  THEN
    LET elts == dimension_numbers.elts IN
    IF Len(elts) # 3
    THEN DimNumsError("TypeError: list/tuple must be length 3")
    ELSE IF ~(\A i \in 1..3 : elts[i].is_str)
    THEN DimNumsError("TypeError: elements must be strings")
    ELSE IF \E i \in 1..3 : Len(elts[i].chars) # Len(lhs_shape)
    THEN DimNumsError("TypeError: must have len equal to the ndim")
    ELSE ConvGeneralPermutations([i \in 1..3 |-> elts[i].chars])
  ELSE DimNumsError("TypeError: must be tuple/list or None")

\* _conv_spec_transpose
ConvSpecTranspose(spec) == <<spec[2], spec[1]>> \o Sdims(spec)

----------------------------------------------------------------------------
(* The public call conv_general_dilated.  Its padding argument is a record  *)
(* [mode, pairs]: mode "EXPLICIT" stands for a sequence of (low, high)      *)
(* pairs, any other mode for that string.  An optional dilation is a        *)
(* record [none, val].                                                      *)

Explicit(pairs) == [mode |-> "EXPLICIT", pairs |-> pairs]

Symbolic(mode) == [mode |-> mode, pairs |-> <<>>]

IsStr(padding) == padding.mode # "EXPLICIT"

None == [none |-> TRUE, val |-> <<>>]

Some(val) == [none |-> FALSE, val |-> val]

\* Every lhs_dilation passed for all ones.
AnyDilationAllOnes(seq) == TRUE

\* len(lhs_dilation) == lhs_dilation.count(1)
AllOnes(seq) == \A i \in 1..Len(seq) : seq[i] = 1

\* The effective kernel size taken without the dilation.
EffectiveRhsDimUndilated(k, r) == k

\* conv_general_dilated: effective_rhs_shape, one axis.
EffectiveRhsDim(k, r) == (k - 1) * r + 1

NotBound(lhs_shape, rhs_shape, err) ==
  [bound |-> FALSE, lhs_shape |-> lhs_shape, rhs_shape |-> rhs_shape,
   params |-> <<>>, out |-> Raise(err)]

\* conv_general_dilated_p.bind: the shape rule runs on the bound parameters.
Bind(lhs_shape, rhs_shape, p) ==
  [bound |-> TRUE, lhs_shape |-> lhs_shape, rhs_shape |-> rhs_shape,
   params |-> p, out |-> ShapeRule(lhs_shape, rhs_shape, p)]

\* The padding a string mode resolves to in conv_general_dilated.
ResolvePadding(lhs_shape, rhs_shape, dn, window_strides, rhs_dilation, mode) ==
  LET k_shape == Sdims(Take(rhs_shape, dn.rhs_spec))
      effective_rhs_shape ==
        [i \in 1..Len(k_shape) |-> EffectiveRhsDim(k_shape[i], rhs_dilation[i])]
  IN  PadtypeToPads(Sdims(Take(lhs_shape, dn.lhs_spec)), effective_rhs_shape,
                    window_strides, mode)

\* conv_general_dilated after its first statement, the canonical dimension
\* numbers dnums.
ConvGeneralDilatedOn(lhs_shape, rhs_shape, a, dnums) ==
  IF ~dnums.ok THEN NotBound(lhs_shape, rhs_shape, dnums.err)
  ELSE IF ~a.lhs_dilation.none /\ IsStr(a.padding)
          /\ ~AllOnes(a.lhs_dilation.val)
  THEN NotBound(lhs_shape, rhs_shape,
                "ValueError: string padding with lhs_dilation")
  ELSE IF IsStr(a.padding) /\ a.padding.mode \notin {"SAME", "VALID"}
  THEN NotBound(lhs_shape, rhs_shape, "RuntimeError: unrecognized padding type")
  ELSE
  LET lhs_dilation == IF a.lhs_dilation.none
                      THEN Ones(Len(lhs_shape) - 2) ELSE a.lhs_dilation.val
      rhs_dilation == IF a.rhs_dilation.none
                      THEN Ones(Len(rhs_shape) - 2) ELSE a.rhs_dilation.val
      padding == IF IsStr(a.padding)
                 THEN ResolvePadding(lhs_shape, rhs_shape, dnums.dn,
                                     a.window_strides, rhs_dilation,
                                     a.padding.mode)
                 ELSE a.padding.pairs
  IN  Bind(lhs_shape, rhs_shape,
           [window_strides |-> a.window_strides,
            padding |-> padding,
            lhs_dilation |-> lhs_dilation,
            rhs_dilation |-> rhs_dilation,
            dimension_numbers |-> dnums.dn,
            feature_group_count |-> a.feature_group_count,
            batch_group_count |-> a.batch_group_count])

\* conv_general_dilated
ConvGeneralDilated(lhs_shape, rhs_shape, a) ==
  ConvGeneralDilatedOn(lhs_shape, rhs_shape, a,
    ConvDimensionNumbers(lhs_shape, rhs_shape, a.dimension_numbers))

\* The arguments of a call made by a rule: explicit pads, canonical
\* dimension numbers, both dilations given.
RuleCall(window_strides, padding, lhs_dilation, rhs_dilation, dn, feature_group_count, batch_group_count) ==
  [window_strides |-> window_strides, padding |-> Explicit(padding),
   lhs_dilation |-> Some(lhs_dilation), rhs_dilation |-> Some(rhs_dilation),
   dimension_numbers |-> dn, feature_group_count |-> feature_group_count,
   batch_group_count |-> batch_group_count]

----------------------------------------------------------------------------
(* The transposed convolution conv_transpose.  Its arguments are a record  *)
(* [strides, padding, rhs_dilation, dimension_numbers, transpose_kernel].  *)

\* The padding before taken as the lower half of the total.
SamePadBeforeFloor(k, s) == IF s > k - 1 THEN k - 1 ELSE (k + s - 2) \div 2

\* _conv_transpose_padding, 'SAME': pad_a
SamePadBefore(k, s) == IF s > k - 1 THEN k - 1 ELSE CeilDiv(k + s - 2, 2)

\* The total without the part a kernel longer than the stride adds.
ValidPadLenNoMax(k, s) == k + s - 2

\* _conv_transpose_padding, 'VALID': pad_len
ValidPadLen(k, s) == k + s - 2 + Max(k - s, 0)

NoPad == [ok |-> FALSE, pad |-> <<>>, err |-> ""]

\* _conv_transpose_padding
ConvTransposePadding(k, s, padding) ==
  IF padding = "SAME"
  THEN [ok |-> TRUE,
        pad |-> <<SamePadBefore(k, s), (k + s - 2) - SamePadBefore(k, s)>>,
        err |-> ""]
  ELSE IF padding = "VALID"
  THEN [ok |-> TRUE, pad |-> <<k - 1, ValidPadLen(k, s) - (k - 1)>>,
        err |-> ""]
  ELSE [NoPad EXCEPT !.err = "ValueError: Padding mode must be SAME or VALID."]

\* No default for any rank.
NoDefaultDimensionNumbers(ndims) == [ok |-> FALSE, dn |-> DimNumsNone]

\* conv_transpose: the layout taken when dimension_numbers is None.
DefaultDimensionNumbers(ndims) ==
  IF ndims = 2
  THEN [ok |-> TRUE,
        dn |-> DimNumsStr(<<"N", "C">>, <<"I", "O">>, <<"N", "C">>)]
  ELSE IF ndims = 3
  THEN [ok |-> TRUE,
        dn |-> DimNumsStr(<<"N", "H", "C">>, <<"H", "I", "O">>,
                          <<"N", "H", "C">>)]
  ELSE IF ndims = 4
  THEN [ok |-> TRUE,
        dn |-> DimNumsStr(<<"N", "H", "W", "C">>, <<"H", "W", "I", "O">>,
                          <<"N", "H", "W", "C">>)]
  ELSE IF ndims = 5
  THEN [ok |-> TRUE,
        dn |-> DimNumsStr(<<"N", "H", "W", "D", "C">>,
                          <<"H", "W", "D", "I", "O">>,
                          <<"N", "H", "W", "D", "C">>)]
  ELSE [ok |-> FALSE, dn |-> DimNumsNone]

\* np.swapaxes on a shape
SwapAxes(shape, a, b) ==
  [i \in 1..Len(shape) |->
     IF i = a + 1 THEN shape[b + 1]
     ELSE IF i = b + 1 THEN shape[a + 1] ELSE shape[i]]

\* The shorter of the lengths: zip and map stop with their shortest argument.
MinLen(s, t) == IF Len(s) < Len(t) THEN Len(s) ELSE Len(t)

\* conv_transpose: effective_k_size on one axis, (k-1) * r + 1.
EffectiveKSize(k, r) == (k - 1) * r + 1

\* conv_transpose from the canonicalization on, dimension_numbers being
\* the given ones or the default.
ConvTransposeOn(lhs_shape, rhs_shape, a, dn) ==
  IF ~dn.ok THEN NotBound(lhs_shape, rhs_shape, dn.err)
  ELSE
  LET k_sdims == Sdims(Take(rhs_shape, dn.dn.rhs_spec))
      resolve == IsStr(a.padding) /\ a.padding.mode \in {"SAME", "VALID"}
      rhs_dilation == IF resolve /\ a.rhs_dilation.none
                      THEN Some(Ones(Len(rhs_shape) - 2)) ELSE a.rhs_dilation
      effective_k_size ==
        [i \in 1..MinLen(k_sdims, rhs_dilation.val) |->
           EffectiveKSize(k_sdims[i], rhs_dilation.val[i])]
      pads == IF resolve
              THEN Explicit([i \in 1..MinLen(effective_k_size, a.strides) |->
                               ConvTransposePadding(effective_k_size[i],
                                                    a.strides[i],
                                                    a.padding.mode).pad])
              ELSE a.padding
      rhs == IF a.transpose_kernel
             THEN SwapAxes(rhs_shape, dn.dn.rhs_spec[1], dn.dn.rhs_spec[2])
             ELSE rhs_shape
  IN  ConvGeneralDilated(lhs_shape, rhs,
        [window_strides |-> Ones(Len(lhs_shape) - 2), padding |-> pads,
         lhs_dilation |-> Some(a.strides), rhs_dilation |-> rhs_dilation,
         dimension_numbers |-> dn.dn, feature_group_count |-> 1,
         batch_group_count |-> 1])

\* conv_transpose
ConvTranspose(lhs_shape, rhs_shape, a) ==
  IF ~(Len(lhs_shape) = Len(rhs_shape) /\ Len(lhs_shape) >= 2)
  THEN NotBound(lhs_shape, rhs_shape, "AssertionError")
  ELSE IF a.dimension_numbers.form = "none"
          /\ ~DefaultDimensionNumbers(Len(lhs_shape)).ok
  THEN NotBound(lhs_shape, rhs_shape,
                "ValueError: No 4+ dimensional dimension_number defaults.")
  ELSE ConvTransposeOn(lhs_shape, rhs_shape, a,
         ConvDimensionNumbers(lhs_shape, rhs_shape,
           IF a.dimension_numbers.form = "none"
           THEN DefaultDimensionNumbers(Len(lhs_shape)).dn
           ELSE a.dimension_numbers))

\* conv_transpose_shape_tuple, dimension_numbers a triple of strings of the
\* operands' rank; zip stops at its shortest argument and np.sum rejects
\* rows of different lengths.
ConvTransposeShapeTuple(lhs_shape, rhs_shape, window_strides, padding, dimension_numbers) ==
  LET perms == ConvGeneralPermutations(dimension_numbers)
      lhs_trans == Take(lhs_shape, perms.dn.lhs_spec)
      rhs_trans == Take(rhs_shape, perms.dn.rhs_spec)
      k_sdims == Sdims(rhs_trans)
      pads == IF IsStr(padding)
              THEN [i \in 1..MinLen(k_sdims, window_strides) |->
                      ConvTransposePadding(k_sdims[i], window_strides[i],
                                           padding.mode)]
              ELSE [i \in 1..Len(padding.pairs) |->
                      [ok |-> TRUE, pad |-> padding.pairs[i], err |-> ""]]
      unpad_out_space ==
        [i \in 1..MinLen(k_sdims, window_strides) |->
           (lhs_trans[i + 2] - 1) * window_strides[i] - k_sdims[i] + 2]
  IN
  IF ~perms.ok THEN Raise(perms.err)
  ELSE IF \E i \in 1..Len(pads) : ~pads[i].ok
  THEN Raise("ValueError: Padding mode must be SAME or VALID.")
  ELSE IF Len(pads) # Len(unpad_out_space) THEN Raise("ValueError")
  ELSE Ok(PermuteOut(<<lhs_trans[1], rhs_trans[1]>>
                     \o [i \in 1..Len(pads) |->
                           unpad_out_space[i] + pads[i].pad[1]
                           + pads[i].pad[2]],
                     perms.dn.out_spec))

----------------------------------------------------------------------------
(* Reshapes that fold one axis into another and split one axis in two.     *)

\* _reshape_axis_into, new_shape: dst indexes the shape with src deleted.
ReshapeAxisIntoShape(src, dst, shape) ==
  LET new_shape == Delete(shape, src)
  IN  [new_shape EXCEPT ![dst + 1] = @ * shape[src + 1]]

\* _reshape_axis_out_of, shape: axis src becomes the axes (size1, size2).
ReshapeAxisOutOfShape(src, size1, shape) ==
  IF size1 = 0 THEN Raise("ZeroDivisionError")
  ELSE IF shape[src + 1] % size1 # 0 THEN Raise("AssertionError: ragged")
  ELSE Ok(SubSeq(shape, 1, src)
          \o <<size1, shape[src + 1] \div size1>>
          \o SubSeq(shape, src + 2, Len(shape)))

----------------------------------------------------------------------------
(* The padding of the transposed convolutions.                             *)

\* pad_before computed from the high pad instead of the low pad.
VjpLhsPadBeforeFromHigh(rhs_dilated, pad) == rhs_dilated - pad[2] - 1

\* _conv_general_vjp_lhs_padding: pad_before on one axis.
VjpLhsPadBefore(rhs_dilated, pad) == rhs_dilated - pad[1] - 1

\* _conv_general_vjp_lhs_padding
ConvGeneralVjpLhsPadding(in_shape, window_dimensions, window_strides, out_shape, padding, lhs_dilation, rhs_dilation) ==
  LET lhs_dilated_shape == DilateShape(in_shape, lhs_dilation)
      rhs_dilated_shape == DilateShape(window_dimensions, rhs_dilation)
      out_dilated_shape == DilateShape(out_shape, window_strides)
  IN  [i \in 1..Len(in_shape) |->
         LET pad_before == VjpLhsPadBefore(rhs_dilated_shape[i], padding[i])
             pad_after == lhs_dilated_shape[i] + rhs_dilated_shape[i] - 1
                          - out_dilated_shape[i] - pad_before
         IN  <<pad_before, pad_after>>]

\* pads_hi without the "- 1" term.
VjpRhsPadHiNoMinusOne(lhs_dilated, rhs_dilated, out_dilated, pad_lo) ==
  (out_dilated - lhs_dilated) + (rhs_dilated - pad_lo)

\* _conv_general_vjp_rhs_padding: pads_hi on one axis.
VjpRhsPadHi(lhs_dilated, rhs_dilated, out_dilated, pad_lo) ==
  (out_dilated - lhs_dilated) + ((rhs_dilated - pad_lo) - 1)

\* _conv_general_vjp_rhs_padding
ConvGeneralVjpRhsPadding(in_shape, window_dimensions, window_strides, out_shape, padding, lhs_dilation, rhs_dilation) ==
  IF Len(in_shape) = 0 THEN <<>>
  ELSE
  LET lhs_dilated_shape == DilateShape(in_shape, lhs_dilation)
      rhs_dilated_shape == DilateShape(window_dimensions, rhs_dilation)
      out_dilated_shape == DilateShape(out_shape, window_strides)
  IN  [i \in 1..Len(padding) |->
         <<padding[i][1],
           VjpRhsPadHi(lhs_dilated_shape[i], rhs_dilated_shape[i],
                       out_dilated_shape[i], padding[i][1])>>]

----------------------------------------------------------------------------
(* Arrays: a shape and the elements in row-major order, element f of at   *)
(* being the element whose multi-index ravels to f.                        *)

RECURSIVE Ravel(_, _)
\* The row-major position of the multi-index idx (0-based) in shape.
Ravel(idx, shape) ==
  IF idx = <<>> THEN 0
  ELSE Ravel(Front(idx), Front(shape)) * Last(shape) + Last(idx)

RECURSIVE Unravel(_, _)
\* The multi-index whose row-major position in shape is f.
Unravel(f, shape) ==
  IF shape = <<>> THEN <<>>
  ELSE Append(Unravel(f \div Last(shape), Front(shape)), f % Last(shape))

Elements(shape) == 0..(Prod(shape) - 1)

Array(shape, at) ==
  [ok |-> TRUE, shape |-> shape, err |-> "", at |-> at, traced |-> FALSE]

\* The abstract value of an array under tracing: its shape, no elements.
ShapedArray(shape) ==
  [ok |-> TRUE, shape |-> shape, err |-> "", at |-> <<>>, traced |-> TRUE]

NoArray(kind) ==
  [ok |-> FALSE, shape |-> <<>>, err |-> kind, at |-> <<>>, traced |-> FALSE]

\* x.shape, or the error raised in place of x.
ShapeOf(x) == [ok |-> x.ok, shape |-> x.shape, err |-> x.err]

\* lax.reshape(x, new_shape, perm): transpose by perm, then reshape in
\* row-major order.
LaxReshape(x, new_shape, perm) ==
  IF x.traced THEN ShapedArray(new_shape) ELSE
  Array(new_shape,
        [f \in Elements(new_shape) |->
           x.at[Ravel(Take(Unravel(f, Take(x.shape, perm)), ArgSort(perm)),
                      x.shape)]])

\* lax.rev(x, dimensions): x reversed along each of the axes named.
LaxRev(x, dimensions) ==
  IF x.traced THEN x ELSE
  Array(x.shape,
        [f \in Elements(x.shape) |->
           LET idx == Unravel(f, x.shape)
           IN  x.at[Ravel([a \in 1..Len(idx) |->
                             IF \E d \in 1..Len(dimensions) :
                                  dimensions[d] = a - 1
                             THEN x.shape[a] - 1 - idx[a]
                             ELSE idx[a]],
                          x.shape)]])

\* The permutation that puts src after the axis it is folded into.
ReshapeAxisIntoPermMinor(src, dst, ndim) ==
  Insert(Delete(Iota(ndim), src), dst + 1, src)

\* _reshape_axis_into, perm: the other axes in order, src inserted at dst.
ReshapeAxisIntoPerm(src, dst, ndim) ==
  Insert(Delete(Iota(ndim), src), dst, src)

\* _reshape_axis_into; an error raised while computing x is passed on.
ReshapeAxisInto(src, dst, x) ==
  IF ~x.ok THEN x
  ELSE LaxReshape(x, ReshapeAxisIntoShape(src, dst, x.shape),
                  ReshapeAxisIntoPerm(src, dst, Len(x.shape)))

\* _reshape_axis_out_of; an error raised while computing x is passed on.
ReshapeAxisOutOf(src, size1, x) ==
  IF ~x.ok THEN x
  ELSE IF ~ReshapeAxisOutOfShape(src, size1, x.shape).ok
  THEN NoArray(ReshapeAxisOutOfShape(src, size1, x.shape).err)
  ELSE LaxReshape(x, ReshapeAxisOutOfShape(src, size1, x.shape).shape,
                  Iota(Len(x.shape)))

\* The elements of the convolution a bound node n denotes, each the set of
\* the products <<lhs element, rhs element>> it sums.  Output feature o
\* belongs to group o div (O / groups); a feature group reads its own
\* block of lhs features, a batch group its own block of lhs batch
\* entries.  Dilation puts the elements of an axis (dilation - 1) apart
\* and padding shifts them; a position outside the elements adds nothing.
ConvValues(lhs, rhs, n) ==
  LET p == n.params
      dn == p.dimension_numbers
      ns == Len(lhs.shape) - 2
      g == p.feature_group_count
      b == p.batch_group_count
      lhs_batch == lhs.shape[dn.lhs_spec[1] + 1]
      rhs_out == rhs.shape[dn.rhs_spec[1] + 1]
      rhs_in == rhs.shape[dn.rhs_spec[2] + 1]
      kernel == [i \in 1..ns |-> rhs.shape[dn.rhs_spec[i + 2] + 1]]
      taps == (0..(rhs_in - 1)) \X {Unravel(e, kernel) : e \in Elements(kernel)}
      lhs_order == ArgSort(dn.lhs_spec)
      rhs_order == ArgSort(dn.rhs_spec)
      Pos(q, k, i) == q[i + 2] * p.window_strides[i]
                        + k[i] * p.rhs_dilation[i] - p.padding[i][1]
      Reads(q, k) ==
        \A i \in 1..ns :
          /\ Pos(q, k, i) >= 0
          /\ Pos(q, k, i) % p.lhs_dilation[i] = 0
          /\ Pos(q, k, i) \div p.lhs_dilation[i]
               < lhs.shape[dn.lhs_spec[i + 2] + 1]
      LhsAt(q, c, k) ==
        lhs.at[Ravel(Take(<<(q[2] \div (rhs_out \div b)) * (lhs_batch \div b)
                              + q[1],
                            (q[2] \div (rhs_out \div g)) * rhs_in + c>>
                          \o [i \in 1..ns |->
                                Pos(q, k, i) \div p.lhs_dilation[i]],
                          lhs_order),
                     lhs.shape)]
      RhsAt(q, c, k) ==
        rhs.at[Ravel(Take(<<q[2], c>> \o k, rhs_order), rhs.shape)]
  IN  [f \in Elements(n.out.shape) |->
         LET q == Take(Unravel(f, n.out.shape), dn.out_spec)
         IN  {<<LhsAt(q, c, k), RhsAt(q, c, k)>> :
                <<c, k>> \in {ck \in taps : Reads(q, ck[2])}}]

\* conv_general_dilated on arrays: the node bound and the array it denotes.
Emit(lhs, rhs, a) ==
  LET n == ConvGeneralDilated(lhs.shape, rhs.shape, a)
  IN  [node |-> n,
       out |-> IF ~(n.bound /\ n.out.ok) THEN NoArray(n.out.err)
               ELSE IF lhs.traced \/ rhs.traced THEN ShapedArray(n.out.shape)
               ELSE Array(n.out.shape, ConvValues(lhs, rhs, n))]

----------------------------------------------------------------------------
(* The transpose (gradient) rules.                                         *)

\* What a rule returns: the convolution it emitted (if any), and either a
\* value, an error, or None.
RuleResult(conv, value, is_none) ==
  [conv |-> conv, value |-> value, is_none |-> is_none, bdim |-> -1]

NoConv == NotBound(<<>>, <<>>, "")

\* The kernel of the lhs transpose with the group axis left in place.
TransposeLhsKernelNoFold(rhs, rhs_spec, group_count) == rhs

\* _conv_general_dilated_transpose_lhs: the group axis is split out of the
\* kernel's output-feature axis and folded into its input-feature axis.
TransposeLhsKernel(rhs, rhs_spec, group_count) ==
  IF group_count > 1
  THEN ReshapeAxisInto(rhs_spec[1], rhs_spec[2],
                       ReshapeAxisOutOf(rhs_spec[1], group_count, rhs))
  ELSE rhs

\* _conv_general_dilated_transpose_lhs, for the node n, the cotangent g of
\* its output and its kernel rhs.
ConvGeneralDilatedTransposeLhs(g, rhs, n) ==
  LET p == n.params
      dn == p.dimension_numbers
      group_count == IF p.feature_group_count > 1 THEN p.feature_group_count
                     ELSE IF p.batch_group_count > 1 THEN p.batch_group_count
                     ELSE p.feature_group_count
      kernel == TransposeLhsKernel(rhs, dn.rhs_spec, group_count)
      trans_dimension_numbers ==
        DimNums(dn.out_spec, ConvSpecTranspose(dn.rhs_spec), dn.lhs_spec)
      padding == ConvGeneralVjpLhsPadding(
                   Take(n.lhs_shape, Sdims(dn.lhs_spec)),
                   Take(n.rhs_shape, Sdims(dn.rhs_spec)),
                   p.window_strides,
                   Take(g.shape, Sdims(dn.out_spec)),
                   p.padding, p.lhs_dilation, p.rhs_dilation)
  IN
  IF ~(p.batch_group_count = 1 \/ p.feature_group_count = 1)
  THEN RuleResult(NoConv, NoArray("AssertionError"), FALSE)
  ELSE IF ~kernel.ok THEN RuleResult(NoConv, kernel, FALSE)
  ELSE
  LET revd_weights == LaxRev(kernel, Sdims(dn.rhs_spec))
      out == Emit(g, revd_weights,
                  RuleCall(p.lhs_dilation, padding, p.window_strides,
                           p.rhs_dilation, trans_dimension_numbers,
                           group_count, 1))
      value == IF p.batch_group_count > 1
               THEN ReshapeAxisInto(dn.lhs_spec[2], dn.lhs_spec[1],
                      ReshapeAxisOutOf(dn.lhs_spec[2], p.batch_group_count,
                                       out.out))
               ELSE out.out
  IN  RuleResult(out.node, value, FALSE)

\* None returned by a rule: no cotangent, and no error either.
NoCotangent == NoArray("")

\* No cotangent taken for empty.
IsNeverEmpty(g) == FALSE

\* np.size(g) == 0
IsEmpty(g) == Prod(g.shape) = 0

\* _conv_general_dilated_transpose_rhs: the two group counts change roles.
TransposeRhsGroups(feature_group_count, batch_group_count) ==
  IF batch_group_count > 1 THEN <<batch_group_count, 1>>
  ELSE IF feature_group_count > 1 THEN <<1, feature_group_count>>
  ELSE <<feature_group_count, batch_group_count>>

\* _conv_general_dilated_transpose_rhs, for the node n, the cotangent g of
\* its output and its input lhs.
ConvGeneralDilatedTransposeRhs(g, lhs, n) ==
  LET p == n.params
      dn == p.dimension_numbers
      groups == TransposeRhsGroups(p.feature_group_count, p.batch_group_count)
      trans_dimension_numbers ==
        DimNums(ConvSpecTranspose(dn.lhs_spec), ConvSpecTranspose(dn.out_spec),
                ConvSpecTranspose(dn.rhs_spec))
      padding == ConvGeneralVjpRhsPadding(
                   Take(n.lhs_shape, Sdims(dn.lhs_spec)),
                   Take(n.rhs_shape, Sdims(dn.rhs_spec)),
                   p.window_strides,
                   Take(g.shape, Sdims(dn.out_spec)),
                   p.padding, p.lhs_dilation, p.rhs_dilation)
  IN
  IF IsEmpty(g) THEN RuleResult(NoConv, NoCotangent, TRUE)
  ELSE IF ~(p.batch_group_count = 1 \/ p.feature_group_count = 1)
  THEN RuleResult(NoConv, NoArray("AssertionError"), FALSE)
  ELSE
  LET out == Emit(lhs, g,
                  RuleCall(p.rhs_dilation, padding, p.lhs_dilation,
                           p.window_strides, trans_dimension_numbers,
                           groups[1], groups[2]))
  IN  RuleResult(out.node, out.out, FALSE)

----------------------------------------------------------------------------
(* The batching rule.  A batch dimension of -1 stands for None.            *)

BatchResult(conv, value, bdim) ==
  [conv |-> conv, value |-> value, is_none |-> FALSE, bdim |-> bdim]

\* Position, in the batched operand, of the axis whose unbatched position
\* is role_axis: lhs_spec[0] + int(lhs_bdim <= lhs_spec[0]).
GroupAxisInBatched(role_axis, bdim) ==
  role_axis + (IF bdim <= role_axis THEN 1 ELSE 0)

\* Position of the batch axis once the axis at role_axis has been split:
\* lhs_bdim + int(lhs_spec[0] < lhs_bdim).
BdimAfterSplit(role_axis, bdim) ==
  bdim + (IF role_axis < bdim THEN 1 ELSE 0)

\* The three-step fold that keeps the groups outermost: split the group
\* axis out, fold the batch axis into the remainder, fold the groups back.
FoldUnderGroups(role_axis, bdim, group_count, x) ==
  ReshapeAxisInto(role_axis, role_axis,
    ReshapeAxisInto(BdimAfterSplit(role_axis, bdim), role_axis + 1,
      ReshapeAxisOutOf(GroupAxisInBatched(role_axis, bdim), group_count, x)))

\* The lhs batch axis folded into the batch-role axis whatever the groups.
BothLhsFoldAxisBatchRole(lhs_spec, batch_group_count) == lhs_spec[1]

\* Both operands batched: the lhs axis the batch axis is folded into.
BothLhsFoldAxis(lhs_spec, batch_group_count) ==
  IF batch_group_count > 1 THEN lhs_spec[1] ELSE lhs_spec[2]

\* The batch size added to the group count.
BothGroupCountAdded(group_count, k) == group_count + k

\* Both operands batched: group_count *= lhs.shape[lhs_bdim]
BothGroupCount(group_count, k) == group_count * k

\* _conv_general_dilated_batch_rule, on arrays lhs and rhs.
ConvGeneralDilatedBatchRule(lhs, rhs, lhs_bdim, rhs_bdim, p) ==
  LET dn == p.dimension_numbers
      lhs_spec == dn.lhs_spec
      rhs_spec == dn.rhs_spec
      out_spec == dn.out_spec
      fgc == p.feature_group_count
      bgc == p.batch_group_count
      Call(f, b) == RuleCall(p.window_strides, p.padding, p.lhs_dilation,
                             p.rhs_dilation, dn, f, b)
  IN
  IF ~(bgc = 1 \/ fgc = 1)
  THEN BatchResult(NoConv, NoArray("AssertionError"), -1)
  ELSE IF lhs_bdim # -1 /\ rhs_bdim # -1
  THEN
    IF lhs.shape[lhs_bdim + 1] # rhs.shape[rhs_bdim + 1]
    THEN BatchResult(NoConv, NoArray("AssertionError"), -1)
    ELSE
    LET k == lhs.shape[lhs_bdim + 1]
        new_lhs == ReshapeAxisInto(lhs_bdim, BothLhsFoldAxis(lhs_spec, bgc),
                                   lhs)
        new_rhs == ReshapeAxisInto(rhs_bdim, rhs_spec[1], rhs)
        out == Emit(new_lhs, new_rhs,
                    IF bgc > 1 THEN Call(fgc, BothGroupCount(bgc, k))
                    ELSE Call(BothGroupCount(fgc, k), bgc))
    IN  BatchResult(out.node,
                    ReshapeAxisOutOf(out_spec[2], k, out.out),
                    out_spec[2])
  ELSE IF lhs_bdim # -1
  THEN
    LET k == lhs.shape[lhs_bdim + 1] IN
    IF bgc = 1
    THEN
      LET new_lhs == ReshapeAxisInto(lhs_bdim, lhs_spec[1], lhs)
          out == Emit(new_lhs, rhs, Call(fgc, 1))
      IN  BatchResult(out.node,
                      ReshapeAxisOutOf(out_spec[1], k, out.out),
                      out_spec[1])
    ELSE
      LET new_lhs == FoldUnderGroups(lhs_spec[1], lhs_bdim, bgc, lhs) IN
      IF ~new_lhs.ok THEN BatchResult(NoConv, new_lhs, -1)
      ELSE
      LET out == Emit(new_lhs, rhs, Call(fgc, bgc))
      IN  BatchResult(out.node,
                      ReshapeAxisOutOf(out_spec[1], k, out.out),
                      out_spec[1])
  ELSE IF rhs_bdim # -1
  THEN
    LET k == rhs.shape[rhs_bdim + 1] IN
    IF fgc = 1 /\ bgc = 1
    THEN
      LET new_rhs == ReshapeAxisInto(rhs_bdim, rhs_spec[1], rhs)
          out == Emit(lhs, new_rhs, Call(fgc, bgc))
      IN  BatchResult(out.node,
                      ReshapeAxisOutOf(out_spec[2], k, out.out),
                      out_spec[2])
    ELSE
      LET group_count == IF fgc > 1 THEN fgc ELSE bgc
          new_rhs == FoldUnderGroups(rhs_spec[1], rhs_bdim, group_count, rhs)
      IN
      IF ~new_rhs.ok THEN BatchResult(NoConv, new_rhs, -1)
      ELSE
      LET out == Emit(lhs, new_rhs, Call(fgc, bgc))
          value ==
            ReshapeAxisInto(out_spec[2], out_spec[2] + 1,
              ReshapeAxisOutOf(out_spec[2] + 1, k,
                ReshapeAxisOutOf(out_spec[2], group_count, out.out)))
      IN  BatchResult(out.node, value, out_spec[2])
  ELSE BatchResult(NoConv, NoArray("not applicable"), -1)

----------------------------------------------------------------------------
(* The inputs explored.                                                    *)

\* The six orders of three axes.
Perms3 ==
  <<  <<0, 1, 2>>, <<0, 2, 1>>, <<1, 0, 2>>,
      <<1, 2, 0>>, <<2, 0, 1>>, <<2, 1, 0>>  >>

AllDimNums3 ==
  {DimNums(Perms3[a], Perms3[b], Perms3[c]) : a, b, c \in 1..6}

\* A cover of the layouts in which every order occurs in every operand.
SomeDimNums3 ==
  {DimNums(Perms3[a], Perms3[((a + 1) % 6) + 1], Perms3[((a + 3) % 6) + 1])
     : a \in 1..6}
  \cup {DimNums(Perms3[a], Perms3[a], Perms3[a]) : a \in {1, 4}}

Args(window_strides, padding, lhs_dilation, rhs_dilation, dimension_numbers, feature_group_count, batch_group_count) ==
  [window_strides |-> window_strides, padding |-> padding,
   lhs_dilation |-> lhs_dilation, rhs_dilation |-> rhs_dilation,
   dimension_numbers |-> dimension_numbers,
   feature_group_count |-> feature_group_count,
   batch_group_count |-> batch_group_count]

\* A call of conv_general_dilated.
CallOf(lhs_shape, rhs_shape, args) ==
  [op |-> "conv_general_dilated", lhs_shape |-> lhs_shape,
   rhs_shape |-> rhs_shape, args |-> args]

\* A call of conv_dimension_numbers.
CanonicalizeOf(lhs_shape, rhs_shape, dimension_numbers) ==
  [op |-> "conv_dimension_numbers", lhs_shape |-> lhs_shape,
   rhs_shape |-> rhs_shape,
   args |-> [dimension_numbers |-> dimension_numbers]]

\* A call of conv_transpose.
ConvTransposeOf(lhs_shape, rhs_shape, strides, padding, rhs_dilation, dimension_numbers, transpose_kernel) ==
  [op |-> "conv_transpose", lhs_shape |-> lhs_shape, rhs_shape |-> rhs_shape,
   args |-> [strides |-> strides, padding |-> padding,
             rhs_dilation |-> rhs_dilation,
             dimension_numbers |-> dimension_numbers,
             transpose_kernel |-> transpose_kernel]]

\* The shape with canonical entries (b, f, s) laid out as spec says.
Layout3(spec, b, f, s) == Take(<<b, f, s>>, ArgSort(spec))

NoBatch == [lhs_bdim |-> -1, rhs_bdim |-> -1, k |-> 0, rhs_k |-> 0]

PadPairs == {<<lo, hi>> : lo, hi \in (-MaxPad)..MaxPad}

Paddings == {Explicit(<<pr>>) : pr \in PadPairs}
            \cup {Symbolic("SAME"), Symbolic("VALID")}

Dilations == {None} \cup {Some(<<d>>) : d \in 1..MaxStride}

\* The group counts accepted together: at most one exceeds 1.
GroupCounts ==
  {<<1, 1>>} \cup {<<g, 1>> : g \in 2..MaxGroup}
             \cup {<<1, g>> : g \in 2..MaxGroup}

\* One spatial axis, default layout, grouped and ungrouped: every size,
\* stride and padding, the dilations drawn from dilations.
Spatial(dilations) ==
  \E gc \in GroupCounts, h \in 0..MaxIn, kk \in 0..MaxKernel,
     s \in 1..MaxStride, ld \in dilations, rd \in dilations,
     pad \in Paddings :
    /\ call = CallOf(<<gc[2], gc[1], h>>, <<gc[1] * gc[2], 1, kk>>,
                     Args(<<s>>, pad, ld, rd, DimNumsNone, gc[1], gc[2]))
    /\ batch = NoBatch

InitSpatial == Spatial(Dilations)

\* A call the shape rule's group checks accept, laid out as dn says.
GroupedCall(dn, gc, n, i, o, h, kk, args) ==
  CallOf(Layout3(dn.lhs_spec, n * gc[2], i * gc[1], h),
         Layout3(dn.rhs_spec, o * gc[1] * gc[2], i, kk),
         args)

\* Layouts of three axes, grouped and ungrouped, empty and non-empty
\* spatial axis, with stride, padding and lhs dilation.
Layout(layouts) ==
  \E dn \in layouts, gc \in GroupCounts, n, i, o \in 0..MaxFeat,
     h \in {0, MaxIn} :
    /\ call = GroupedCall(dn, gc, n, i, o, h, MaxKernel,
                Args(<<MaxStride>>, Explicit(<< <<MaxPad, 0>> >>),
                     Some(<<MaxStride>>), Some(<<1>>), dn, gc[1], gc[2]))
    /\ batch = NoBatch

InitLayout == Layout(AllDimNums3)

BatchDimsOf(sizes) ==
  {[lhs_bdim |-> lb, rhs_bdim |-> rb, k |-> k, rhs_k |-> k] :
     lb \in -1..3, rb \in -1..3, k \in sizes}
  \ {[lhs_bdim |-> -1, rhs_bdim |-> -1, k |-> k, rhs_k |-> k] : k \in sizes}

BatchDims == BatchDimsOf(0..MaxBatch)

\* Batched calls: every placement of the batch axis on either operand or
\* both, grouped and ungrouped, of unit stride and no padding.
Batched(layouts, groups, feats, h, batches) ==
  \E dn \in layouts, gc \in groups, n, i, o \in feats, b \in batches :
    /\ call = GroupedCall(dn, gc, n, i, o, h, MaxKernel,
                Args(<<1>>, Explicit(<< <<0, 0>> >>), Some(<<1>>),
                     Some(<<1>>), dn, gc[1], gc[2]))
    /\ batch = b

InitBatched ==
  Batched(SomeDimNums3, GroupCounts, {0, 1, MaxFeat}, MaxIn, BatchDims)

Identity3 == DimNums(Perms3[1], Perms3[1], Perms3[1])

\* Batch axes on both operands whose sizes differ.
MismatchedBatchDims ==
  {[lhs_bdim |-> lb, rhs_bdim |-> rb, k |-> k, rhs_k |-> r] :
     lb \in 0..3, rb \in 0..3, k \in 0..MaxBatch, r \in 0..MaxBatch}
  \ BatchDims

\* Calls batched on both operands with batch axes of different sizes.
InitMismatched ==
  Batched(SomeDimNums3, GroupCounts, {1, MaxFeat}, MaxIn, MismatchedBatchDims)

\* Calls the shape rule may reject: any sizes and group counts, operands of
\* different rank, window_strides of the wrong length.
InitUnchecked ==
  \E n, c, o, i \in 0..MaxGroup, fgc, bgc \in -1..(MaxGroup + 1),
     variant \in {"plain", "rhs_short", "rhs_long", "strides_short",
                  "strides_long"} :
    /\ call = CallOf(<<n, c, MaxIn>>,
                     CASE variant = "rhs_short" -> <<o, i>>
                       [] variant = "rhs_long" -> <<o, i, MaxKernel, MaxKernel>>
                       [] OTHER -> <<o, i, MaxKernel>>,
                     Args(CASE variant = "strides_short" -> <<>>
                            [] variant = "strides_long" -> <<1, 1>>
                            [] OTHER -> <<1>>,
                          Explicit(<< <<0, 0>> >>), Some(<<1>>), Some(<<1>>),
                          Identity3, fgc, bgc))
    /\ batch = NoBatch

\* The concrete calls the documentation names.
InitScenario ==
  /\ call \in
       { CallOf(<<1, 3, 8, 8>>, <<4, 3, 3, 3>>,
                Args(<<1, 1>>, Symbolic("SAME"), None, None, DimNumsNone,
                     1, 1)),
         CallOf(<<2, 4, 5, 5>>, <<4, 2, 3, 3>>,
                Args(<<1, 1>>, Symbolic("VALID"), None, None, DimNumsNone,
                     2, 1)),
         CallOf(<<2, 4, 5, 5>>, <<4, 4, 3, 3>>,
                Args(<<1, 1>>, Symbolic("VALID"), None, None, DimNumsNone,
                     2, 1)) }
  /\ batch = NoBatch

\* One shape of every rank up to five; the canonicalizer reads the rank only.
Shapes ==
  {<<>>, <<2>>, <<2, 3>>, <<2, 3, 4>>, <<2, 3, 4, 5>>, <<2, 3, 4, 5, 6>>}

Identity4 == DimNums(<<0, 1, 2, 3>>, <<0, 1, 2, 3>>, <<0, 1, 2, 3>>)

\* A ConvDimensionNumbers given with operands of any two ranks.
InitCanonical ==
  \E d \in AllDimNums3 \cup {Identity4, DimNums(<<0, 0>>, <<1, 0>>, <<>>)},
     lhs_shape, rhs_shape \in Shapes :
    /\ call = CanonicalizeOf(lhs_shape, rhs_shape, d)
    /\ batch = NoBatch

\* The strings of three characters over an alphabet.
Strings3(alphabet) == {<<a, b, c>> : a, b, c \in alphabet}

\* The orders of four distinct characters.
Orders4(chars) ==
  {spec \in {<<a, b, c, d>> : a, b, c, d \in CharSet(chars)} :
     Cardinality(CharSet(spec)) = 4}

\* Every triple of three-character strings over the reserved characters of
\* each operand and two spatial ones, on operands of rank three.
InitStrings3 ==
  \E lhs \in Strings3({"N", "C", "H", "W"}),
     rhs \in Strings3({"O", "I", "H", "W"}),
     out \in Strings3({"N", "C", "H", "W"}) :
    /\ call = CanonicalizeOf(<<2, 3, 4>>, <<2, 3, 4>>,
                             DimNumsStr(lhs, rhs, out))
    /\ batch = NoBatch

\* Every triple of layouts of four axes, on operands of rank four.
InitStrings4 ==
  \E lhs \in Orders4(<<"N", "C", "H", "W">>),
     rhs \in Orders4(<<"O", "I", "H", "W">>),
     out \in Orders4(<<"N", "C", "H", "W">>) :
    /\ call = CanonicalizeOf(<<2, 3, 4, 5>>, <<2, 3, 4, 5>>,
                             DimNumsStr(lhs, rhs, out))
    /\ batch = NoBatch

\* Arguments of the other kinds: None, sequences that are not three
\* strings, strings with a character reserved for another operand or with
\* a repeated spatial character, strings of rank two and five, and a value
\* that is no sequence; each with operands of any two ranks.
OtherDimNums ==
  { DimNumsNone, DimNumsOther,
    DimNumsSeq(<<>>),
    DimNumsSeq(<<Str(<<"N", "C", "H">>), Str(<<"O", "I", "H">>)>>),
    DimNumsSeq(<<Str(<<"N", "C", "H">>), Str(<<"O", "I", "H">>),
                 Str(<<"N", "C", "H">>), Str(<<"N", "C", "H">>)>>),
    DimNumsSeq(<<Str(<<"N", "C", "H">>), NotStr, Str(<<"N", "C", "H">>)>>),
    DimNumsSeq(<<NotStr, NotStr, NotStr>>),
    DimNumsStr(<<"N", "C", "H">>, <<"O", "I", "H">>, <<"N", "C", "H">>),
    DimNumsStr(<<"N", "C", "H">>, <<"O", "I", "H">>, <<"N", "C">>),
    DimNumsStr(<<"N", "C", "H">>, <<"O", "I">>, <<"N", "C", "H">>),
    DimNumsStr(<<"N", "C">>, <<"O", "I", "H">>, <<"N", "C", "H">>),
    DimNumsStr(<<"N", "C", "O">>, <<"O", "I", "N">>, <<"N", "C", "O">>),
    DimNumsStr(<<"N", "C", "O">>, <<"O", "I", "O">>, <<"N", "C", "O">>),
    DimNumsStr(<<"N", "C", "I">>, <<"N", "O", "I">>, <<"N", "C", "I">>),
    DimNumsStr(<<"O", "I", "H">>, <<"O", "I", "H">>, <<"O", "I", "H">>),
    DimNumsStr(<<"N", "C", "O">>, <<"C", "O", "I">>, <<"N", "C", "O">>),
    DimNumsStr(<<"N", "C">>, <<"O", "I">>, <<"N", "C">>),
    DimNumsStr(<<"C", "N">>, <<"I", "O">>, <<"N", "C">>),
    DimNumsStr(<<"N", "N">>, <<"O", "I">>, <<"N", "C">>),
    DimNumsStr(<<"N">>, <<"O">>, <<"N">>),
    DimNumsStr(<<>>, <<>>, <<>>),
    DimNumsStr(<<"N", "C", "H", "W">>, <<"O", "I", "H", "W">>,
               <<"N", "C", "H", "W">>),
    DimNumsStr(<<"N", "C", "H", "H">>, <<"O", "I", "H", "H">>,
               <<"N", "C", "H", "H">>),
    DimNumsStr(<<"N", "H", "W", "C">>, <<"H", "W", "I", "O">>,
               <<"N", "H", "H", "C">>),
    DimNumsStr(<<"N", "H", "W", "D", "C">>, <<"W", "D", "H", "I", "O">>,
               <<"N", "C", "D", "W", "H">>),
    DimNumsStr(<<"N", "H", "W", "D", "C">>, <<"W", "D", "H", "I", "O">>,
               <<"N", "C", "D", "W", "X">>) }

InitOtherDimNums ==
  \E d \in OtherDimNums, lhs_shape, rhs_shape \in Shapes :
    /\ call = CanonicalizeOf(lhs_shape, rhs_shape, d)
    /\ batch = NoBatch

\* Transposed convolutions over one spatial axis in the default layout
\* (NHC, HIO, NHC): every size, stride, dilation and padding, the kernel
\* as it is and transposed.
InitTransposeSpatial ==
  \E h \in 0..MaxIn, kk \in 0..MaxKernel, s \in 1..MaxStride,
     rd \in Dilations, c, o \in 1..MaxFeat, transpose_kernel \in BOOLEAN,
     pad \in {Symbolic("SAME"), Symbolic("VALID"), Symbolic("FULL"),
              Explicit(<< <<0, 0>> >>), Explicit(<< <<MaxPad, 0>> >>),
              Explicit(<< <<0, -MaxPad>> >>)} :
    /\ call = ConvTransposeOf(<<1, h, c>>, <<kk, c, o>>, <<s>>, pad, rd,
                              DimNumsNone, transpose_kernel)
    /\ batch = NoBatch

\* The shape of rank r with every axis of size two.
Twos(r) == [i \in 1..r |-> 2]

\* Transposed convolutions on operands of every rank up to seven, equal
\* and unequal, dimension_numbers left out or given.
InitTransposeRanks ==
  \E r, q \in 0..7, given \in {"none", "canonical", "other"} :
    /\ call = ConvTransposeOf(Twos(r), Twos(q), Ones(r - 2),
                              Symbolic("VALID"), None,
                              CASE given = "none" -> DimNumsNone
                                [] given = "canonical" ->
                                     DimNums(Iota(r), Iota(r), Iota(r))
                                [] OTHER -> DimNumsOther,
                              FALSE)
    /\ batch = NoBatch

\* The transposed convolution the documentation names: strides (2, 2),
\* kernel size 3, padding "SAME".
TransposeScenario ==
  ConvTransposeOf(<<1, 8, 8, 3>>, <<3, 3, 3, 4>>, <<2, 2>>, Symbolic("SAME"),
                  None, DimNumsNone, FALSE)

InitTransposeScenario ==
  /\ call = TransposeScenario
  /\ batch = NoBatch

\* One call of the canonicalizer and the smallest transposed convolutions.
InitOtherOperations ==
  /\ \/ call = CanonicalizeOf(<<2, 3, 4>>, <<2, 3, 4>>, DimNumsNone)
     \/ \E s \in 1..MaxStride, mode \in {"SAME", "VALID"} :
          call = ConvTransposeOf(<<1, MaxKernel, 1>>, <<MaxKernel, 1, 1>>,
                                 <<s>>, Symbolic(mode), None, DimNumsNone,
                                 FALSE)
  /\ batch = NoBatch

\* Convolutions whose dimension_numbers are of every kind, on operands of
\* equal and unequal rank; the padding is a mode, also an unknown one,
\* where the ranks agree.
InitUncanonical ==
  \E d \in OtherDimNums \cup {Identity3},
     shapes \in { << <<1, 1, MaxIn>>, <<1, 1, MaxKernel>> >>,
                  << <<1, 1, MaxIn>>, <<1, 1>> >>,
                  << <<1, 1>>, <<1, 1, MaxKernel>> >>,
                  << <<1, 1>>, <<1, 1>> >>,
                  << <<1, 1, MaxIn, MaxIn>>, <<1, 1, MaxKernel, MaxKernel>> >> },
     pad \in {"EXPLICIT", "SAME", "VALID", "FULL"} :
    /\ pad # "EXPLICIT" =>
         /\ Len(shapes[1]) = Len(shapes[2])
         /\ d.form = "canonical" => Len(shapes[1]) = 3
    /\ call = CallOf(shapes[1], shapes[2],
                     Args(Ones(Len(shapes[1]) - 2),
                          IF pad = "EXPLICIT"
                          THEN Explicit([i \in 1..(Len(shapes[1]) - 2) |->
                                           <<0, 0>>])
                          ELSE Symbolic(pad),
                          None, None, d, 1, 1))
    /\ batch = NoBatch

\* Convolutions of two spatial axes called with a padding mode, known or
\* not, and every lhs_dilation: left out, all ones, one or both entries
\* larger; the dimension numbers valid and invalid.
InitDilatedModes ==
  \E h \in {1, MaxIn}, kk \in 1..MaxKernel,
     ld \in {None} \cup {Some(<<a, b>>) : a, b \in 1..MaxStride},
     s \in 1..MaxStride, mode \in {"SAME", "VALID", "FULL"},
     d \in {DimNumsNone, Identity4, DimNumsOther} :
    /\ call = CallOf(<<1, 1, h, MaxIn>>, <<1, 1, kk, kk>>,
                     Args(<<s, 1>>, Symbolic(mode), ld, None, d, 1, 1))
    /\ batch = NoBatch

NoResult == [conv |-> NoConv, value |-> Raise(""), is_none |-> FALSE,
             bdim |-> -1]

\* Nothing bound yet.
Start ==
  /\ pc = "call"
  /\ canonicalized = NoDimNums
  /\ node = NoConv
  /\ rule = "none"
  /\ result = NoResult

Init ==
  /\ Start
  /\ \/ InitSpatial
     \/ InitLayout
     \/ InitBatched
     \/ InitMismatched
     \/ InitUnchecked
     \/ InitScenario
     \/ InitTransposeSpatial
     \/ InitTransposeRanks
     \/ InitTransposeScenario
     \/ InitOtherOperations
     \/ InitUncanonical
     \/ InitDilatedModes

\* The inputs of the properties about the elements of the gradients: the
\* dilations given, a cover of the layouts, and the smallest call batched
\* in every way.
InitGradient ==
  /\ Start
  /\ \/ Spatial({Some(<<d>>) : d \in 1..MaxStride})
     \/ Layout(SomeDimNums3)
     \/ Batched({Identity3}, {<<1, 1>>}, {1}, MaxKernel, BatchDims)
     \/ InitScenario
     \/ InitOtherOperations

\* The smallest calls that take every operation.
InitEveryOperation ==
  \/ Batched({Identity3}, {<<1, 1>>}, {1}, MaxKernel, BatchDims)
  \/ InitOtherOperations

\* The inputs of the properties about the canonicalizer.
InitDimNums ==
  /\ Start
  /\ \/ InitCanonical
     \/ InitStrings3
     \/ InitStrings4
     \/ InitOtherDimNums
     \/ InitEveryOperation

\* The group counts at their ends.
EndGroupCounts == {<<1, 1>>, <<MaxGroup, 1>>, <<1, MaxGroup>>}

\* The inputs of the properties about the elements of a batched result:
\* empty, unit and largest sizes, a kernel that covers its input.
InitBatching ==
  /\ Start
  /\ \/ Batched(SomeDimNums3, EndGroupCounts, {0, 1, MaxFeat}, MaxKernel,
                BatchDimsOf({0, 1, MaxBatch}))
     \/ InitOtherOperations

----------------------------------------------------------------------------
(* The operations.                                                         *)

\* The user's call: canonicalize, resolve the padding, bind.
Convolve ==
  /\ pc = "call"
  /\ call.op = "conv_general_dilated"
  /\ node' = ConvGeneralDilated(call.lhs_shape, call.rhs_shape, call.args)
  /\ pc' = IF node'.bound /\ node'.out.ok THEN "bound" ELSE "failed"
  /\ UNCHANGED <<call, batch, canonicalized, rule, result>>

\* conv_dimension_numbers called on its own.
Canonicalize ==
  /\ pc = "call"
  /\ call.op = "conv_dimension_numbers"
  /\ canonicalized' = ConvDimensionNumbers(call.lhs_shape, call.rhs_shape,
                                           call.args.dimension_numbers)
  /\ pc' = IF canonicalized'.ok THEN "done" ELSE "failed"
  /\ UNCHANGED <<call, batch, node, rule, result>>

\* The user's call of conv_transpose.
ConvolveTransposed ==
  /\ pc = "call"
  /\ call.op = "conv_transpose"
  /\ node' = ConvTranspose(call.lhs_shape, call.rhs_shape, call.args)
  /\ pc' = IF node'.bound /\ node'.out.ok THEN "bound" ELSE "failed"
  /\ UNCHANGED <<call, batch, canonicalized, rule, result>>

\* The strings conv_transpose takes for the call: its default layout.
StringsOfCall ==
  [i \in 1..3 |->
     DefaultDimensionNumbers(Len(call.lhs_shape)).dn.elts[i].chars]

\* conv_transpose_shape_tuple asked for the shape of a transposed
\* convolution that was called in its default layout.
TransposeShapeTuple ==
  /\ pc \in {"bound", "failed"}
  /\ call.op = "conv_transpose"
  /\ call.args.dimension_numbers.form = "none"
  /\ Len(call.lhs_shape) = Len(call.rhs_shape)
  /\ DefaultDimensionNumbers(Len(call.lhs_shape)).ok
  /\ result' = RuleResult(NoConv,
                          ConvTransposeShapeTuple(call.lhs_shape,
                            call.rhs_shape, call.args.strides,
                            call.args.padding, StringsOfCall),
                          FALSE)
  /\ rule' = "conv_transpose_shape_tuple"
  /\ pc' = "done"
  /\ UNCHANGED <<call, batch, canonicalized, node>>

\* An array of the given shape whose elements are told apart by name and
\* position.
Labelled(name, shape) ==
  Array(shape, [f \in Elements(shape) |-> <<name, f>>])

\* An operand of a rule: under tracing the rule sees its shape only.
Input(traced, name, shape) ==
  IF traced THEN ShapedArray(shape) ELSE Labelled(name, shape)

\* The lhs transpose of the node on a cotangent of its output.
TransposedLhsOf(traced) ==
  ConvGeneralDilatedTransposeLhs(Input(traced, "g", node.out.shape),
                                 Input(traced, "rhs", node.rhs_shape), node)

\* The rhs transpose of the node on a cotangent of its output.
TransposedRhsOf(traced) ==
  ConvGeneralDilatedTransposeRhs(Input(traced, "g", node.out.shape),
                                 Input(traced, "lhs", node.lhs_shape), node)

\* The node is transposed with respect to lhs; the cotangent has the
\* shape of the node's output, and the state keeps the shape of the result.
TransposeLhs ==
  /\ pc = "bound"
  /\ result' = [TransposedLhsOf(TRUE) EXCEPT !.value = ShapeOf(@)]
  /\ rule' = "transpose_lhs"
  /\ pc' = "done"
  /\ UNCHANGED <<call, batch, canonicalized, node>>

\* The node is transposed with respect to rhs.
TransposeRhs ==
  /\ pc = "bound"
  /\ result' = [TransposedRhsOf(TRUE) EXCEPT !.value = ShapeOf(@)]
  /\ rule' = "transpose_rhs"
  /\ pc' = "done"
  /\ UNCHANGED <<call, batch, canonicalized, node>>

\* An operand as the transform hands it over: the batch axis put at its
\* position.
Operand(traced, name, shape, bdim, size) ==
  Input(traced, name,
        IF bdim = -1 THEN shape ELSE Insert(shape, bdim, size))

\* The rule's result on the batched operands.
VectorizedOf(traced) ==
  ConvGeneralDilatedBatchRule(
    Operand(traced, "lhs", node.lhs_shape, batch.lhs_bdim, batch.k),
    Operand(traced, "rhs", node.rhs_shape, batch.rhs_bdim, batch.rhs_k),
    batch.lhs_bdim, batch.rhs_bdim, node.params)

\* The node is run under a vectorizing transform that put a batch axis on
\* one or both operands; the state keeps the shape of the result.
Vectorize ==
  /\ pc = "bound"
  /\ batch.lhs_bdim # -1 \/ batch.rhs_bdim # -1
  /\ result' = [VectorizedOf(TRUE) EXCEPT !.value = ShapeOf(@)]
  /\ rule' = "batch"
  /\ pc' = "done"
  /\ UNCHANGED <<call, batch, canonicalized, node>>

Next ==
  \/ Convolve
  \/ ConvolveTransposed
  \/ TransposeShapeTuple
  \/ Canonicalize
  \/ TransposeLhs
  \/ TransposeRhs
  \/ Vectorize

Spec == Init /\ [][Next]_vars

SpecGradient == InitGradient /\ [][Next]_vars

SpecBatching == InitBatching /\ [][Next]_vars

SpecDimNums == InitDimNums /\ [][Next]_vars

----------------------------------------------------------------------------
(* Properties.                                                             *)

\* The nodes of a state: the user's node and the node a rule emitted.
Nodes == {node, result.conv}

Accepted(n) == n.bound /\ n.out.ok

\* The output size of one spatial axis, written out in full.
SpatialOut(size, kernel, lo, hi, stride, ld, rd) ==
  LET dilated_lhs == IF size = 0 THEN 0 ELSE (size - 1) * ld + 1
      dilated_rhs == IF kernel = 0 THEN 0 ELSE (kernel - 1) * rd + 1
      q == ((dilated_lhs + lo + hi - dilated_rhs) \div stride) + 1
  IN  IF q < 0 THEN 0 ELSE q

AgreesWithFormula(n) ==
  LET p == n.params
      dn == p.dimension_numbers
      out == n.out.shape
  IN  /\ Len(out) = Len(n.lhs_shape)
      /\ out[dn.out_spec[1] + 1] * p.batch_group_count
           = n.lhs_shape[dn.lhs_spec[1] + 1]
      /\ out[dn.out_spec[2] + 1] = n.rhs_shape[dn.rhs_spec[1] + 1]
      /\ \A i \in 1..(Len(out) - 2) :
           out[dn.out_spec[i + 2] + 1] =
             SpatialOut(n.lhs_shape[dn.lhs_spec[i + 2] + 1],
                        n.rhs_shape[dn.rhs_spec[i + 2] + 1],
                        p.padding[i][1], p.padding[i][2],
                        p.window_strides[i], p.lhs_dilation[i],
                        p.rhs_dilation[i])

\* C1: whenever the shape rule returns a shape, that shape read at the
\* physical axes out_spec[0], out_spec[1], out_spec[2+i] is
\* (lhs_batch / batch_group_count, rhs_output_feature,
\*  max(0, floor((dilated_lhs_i + lo_i + hi_i - dilated_rhs_i) / stride_i) + 1)).
C1_ShapeRuleAgreesWithFormula ==
  \A n \in Nodes : Accepted(n) => AgreesWithFormula(n)

\* C1 witness: an accepted batch-grouped, lhs-dilated, padded call in a
\* layout whose output order is not the identity.
C1_Witness ==
  /\ pc = "bound"
  /\ node.params.batch_group_count > 1
  /\ node.params.dimension_numbers.out_spec = <<2, 0, 1>>
  /\ node.params.lhs_dilation[1] > 1
  /\ node.params.padding[1][1] > 0
  /\ node.out.shape[node.params.dimension_numbers.out_spec[3] + 1] > 1
  /\ node.out.shape[node.params.dimension_numbers.out_spec[1] + 1] > 1

\* C2: the convolution the lhs transpose rule emits is accepted by the
\* shape rule and the rule's result has exactly the shape of lhs.
C2_TransposeLhsShape ==
  rule = "transpose_lhs" =>
    /\ Accepted(result.conv)
    /\ result.value.ok
    /\ result.value.shape = node.lhs_shape

\* C2 witness: the lhs transpose of a batch-grouped, strided, dilated call
\* in a non-identity layout, with the batch-group un-fold applied.
C2_Witness ==
  /\ rule = "transpose_lhs"
  /\ node.params.batch_group_count > 1
  /\ node.params.dimension_numbers.lhs_spec = <<1, 2, 0>>
  /\ node.params.window_strides[1] > 1
  /\ Prod(node.lhs_shape) > 0
  /\ result.value.ok
  /\ result.value.shape = node.lhs_shape
  /\ result.conv.out.shape # node.lhs_shape

\* C3: when the forward output has no zero-size axis, the convolution the
\* rhs transpose rule emits is accepted by the shape rule and has exactly
\* the shape of rhs.
C3_TransposeRhsShape ==
  (rule = "transpose_rhs" /\ Prod(node.out.shape) # 0) =>
    /\ ~result.is_none
    /\ Accepted(result.conv)
    /\ result.value.ok
    /\ result.value.shape = node.rhs_shape

\* The forward stride leaves a remainder on the first spatial axis of n.
StrideLeavesRemainder(n) ==
  LET p == n.params
      dn == p.dimension_numbers
      size == n.lhs_shape[dn.lhs_spec[3] + 1]
      kernel == n.rhs_shape[dn.rhs_spec[3] + 1]
      dilated_lhs == IF size = 0 THEN 0 ELSE (size - 1) * p.lhs_dilation[1] + 1
      dilated_rhs == IF kernel = 0 THEN 0
                     ELSE (kernel - 1) * p.rhs_dilation[1] + 1
  IN  (dilated_lhs + p.padding[1][1] + p.padding[1][2] - dilated_rhs)
        % p.window_strides[1] # 0

\* C3 witness: the rhs transpose of a feature-grouped call whose stride
\* does not divide the padded input minus the kernel.
C3_Witness ==
  /\ rule = "transpose_rhs"
  /\ node.params.feature_group_count > 1
  /\ StrideLeavesRemainder(node)
  /\ Prod(node.rhs_shape) > 1
  /\ Accepted(result.conv)
  /\ result.conv.params.batch_group_count > 1
  /\ result.value.shape = node.rhs_shape

\* The batching rule inverted its fold: the result has size batch.k at the
\* returned batch axis, the axis is where the path puts it, and without it
\* the result has the shape of the unbatched node.
UnfoldInvertsFold ==
  /\ Accepted(result.conv)
  /\ result.value.ok
  /\ result.bdim =
       (IF batch.rhs_bdim = -1
        THEN node.params.dimension_numbers.out_spec[1]
        ELSE node.params.dimension_numbers.out_spec[2])
  /\ Len(result.value.shape) = Len(node.out.shape) + 1
  /\ result.value.shape[result.bdim + 1] = batch.k
  /\ Delete(result.value.shape, result.bdim) = node.out.shape

\* C4: in every path of the batching rule, for every position of the batch
\* axis and every batch size k, the unfold inverts the fold at shape level.
C4_UnfoldInvertsFold == rule = "batch" => UnfoldInvertsFold

\* C4 for batch sizes k >= 1 only.
C4_UnfoldInvertsFoldNonEmptyBatch ==
  (rule = "batch" /\ batch.k >= 1) => UnfoldInvertsFold

\* The products the node's convolution sums, as triples <<q, a, b>>:
\* output element q sums lhs[a] * rhs[b].  The derivative of the scalar
\* loss sum_q g[q] * out[q] by lhs[a] is the sum of g[q] * rhs[b] over
\* these triples, and by rhs[b] the sum of g[q] * lhs[a]; a difference
\* quotient of the loss, which is linear in each operand, is that sum.
ForwardTerms ==
  LET out == ConvValues(Labelled("lhs", node.lhs_shape),
                        Labelled("rhs", node.rhs_shape), node)
  IN  UNION {{<<q, t[1][2], t[2][2]>> : t \in out[q]} :
               q \in Elements(node.out.shape)}

\* The products g[q] * rhs[b] the lhs transpose sums into element a.
TransposeLhsTerms ==
  LET ct == TransposedLhsOf(FALSE).value.at
  IN  UNION {{<<t[1][2], a, t[2][2]>> : t \in ct[a]} :
               a \in Elements(node.lhs_shape)}

\* The products lhs[a] * g[q] the rhs transpose sums into element b.
TransposeRhsTerms ==
  LET ct == TransposedRhsOf(FALSE).value.at
  IN  UNION {{<<t[2][2], t[1][2], b>> : t \in ct[b]} :
               b \in Elements(node.rhs_shape)}

\* C6: the gradients the lhs and rhs transpose rules produce for a scalar
\* loss are the derivatives of that loss, which a finite-difference
\* quotient of the loss approximates: element for element they sum the
\* products the derivative sums, grouped or ungrouped.
C6_TransposeRulesGiveTheGradient ==
  /\ (rule = "transpose_lhs" /\ result.value.ok) =>
       /\ result.value.shape = node.lhs_shape
       /\ TransposeLhsTerms = ForwardTerms
  /\ (rule = "transpose_rhs" /\ result.value.ok /\ ~result.is_none) =>
       /\ result.value.shape = node.rhs_shape
       /\ TransposeRhsTerms = ForwardTerms

\* C6 witness: the rhs gradient of a batch-grouped convolution with a
\* stride that leaves a remainder, summing several products.
C6_Witness ==
  /\ rule = "transpose_rhs"
  /\ result.value.ok
  /\ ~result.is_none
  /\ node.params.batch_group_count > 1
  /\ StrideLeavesRemainder(node)
  /\ Cardinality(ForwardTerms) > 1
  /\ TransposeRhsTerms = ForwardTerms

\* The user's call of conv_general_dilated names a padding mode, dilates
\* lhs not at all and gives dimension numbers that need no checking.
CalledWithMode(mode) ==
  /\ pc # "call"
  /\ call.op = "conv_general_dilated"
  /\ call.args.dimension_numbers.form \in {"none", "canonical"}
  /\ call.args.padding.mode = mode
  /\ call.args.lhs_dilation.none \/ AllOnes(call.args.lhs_dilation.val)

\* The canonical spatial sizes of the call's operands and of the output.
CallIn(i) == call.lhs_shape[node.params.dimension_numbers.lhs_spec[i + 2] + 1]

CallKernel(i) ==
  call.rhs_shape[node.params.dimension_numbers.rhs_spec[i + 2] + 1]

NodeOut(i) == node.out.shape[node.params.dimension_numbers.out_spec[i + 2] + 1]

NumSpatial == Len(call.lhs_shape) - 2

CallKernelsPositive ==
  \A a \in 1..Len(call.rhs_shape) : call.rhs_shape[a] >= 1

SameScenario ==
  CallOf(<<1, 3, 8, 8>>, <<4, 3, 3, 3>>,
         Args(<<1, 1>>, Symbolic("SAME"), None, None, DimNumsNone, 1, 1))

\* C7: with padding "SAME", no lhs dilation and kernel sizes >= 1, every
\* output spatial size is ceil(in / stride), hence the input size when the
\* stride is 1; lhs (1,3,8,8), rhs (4,3,3,3), strides (1,1) gives (1,4,8,8).
C7_SamePadding ==
  (CalledWithMode("SAME") /\ CallKernelsPositive) =>
    /\ Accepted(node)
    /\ \A i \in 1..NumSpatial :
         /\ NodeOut(i) = (CallIn(i) + node.params.window_strides[i] - 1)
                           \div node.params.window_strides[i]
         /\ node.params.window_strides[i] = 1 => NodeOut(i) = CallIn(i)
    /\ call = SameScenario => node.out.shape = <<1, 4, 8, 8>>

\* C7 witness: a SAME call with a dilated kernel and a stride that does
\* not divide the input.
C7_Witness ==
  /\ CalledWithMode("SAME")
  /\ Accepted(node)
  /\ NumSpatial = 1
  /\ CallKernel(1) > 1
  /\ node.params.rhs_dilation[1] > 1
  /\ node.params.window_strides[1] > 1
  /\ CallIn(1) % node.params.window_strides[1] # 0
  /\ NodeOut(1) > 1

\* The quotient floor((in - effective_kernel) / stride) + 1 of axis i.
ValidQuotient(i, effective_kernel) ==
  ((CallIn(i) - effective_kernel) \div node.params.window_strides[i]) + 1

\* C8 as stated: with padding "VALID" every output spatial size is
\* floor((in - effective_kernel) / stride) + 1, where
\* effective_kernel = (kernel - 1) * rhs_dilation + 1.
C8_ValidPaddingAsStated ==
  (CalledWithMode("VALID") /\ Accepted(node)) =>
    \A i \in 1..NumSpatial :
      NodeOut(i) = ValidQuotient(i, (CallKernel(i) - 1)
                                      * node.params.rhs_dilation[i] + 1)

\* C8 amended: with padding "VALID" every output spatial size is
\* max(0, floor((in - effective_kernel) / stride) + 1), where
\* effective_kernel is (kernel - 1) * rhs_dilation + 1 for a kernel >= 1
\* and 0 for an empty kernel.
C8_ValidPaddingClamped ==
  (CalledWithMode("VALID") /\ Accepted(node)) =>
    \A i \in 1..NumSpatial :
      LET effective_kernel ==
            IF CallKernel(i) = 0 THEN 0
            ELSE (CallKernel(i) - 1) * node.params.rhs_dilation[i] + 1
          q == ValidQuotient(i, effective_kernel)
      IN  NodeOut(i) = IF q < 0 THEN 0 ELSE q

\* C8 witness: a VALID call whose dilated kernel exceeds the input by more
\* than the stride, so that the quotient is negative and the size is 0.
C8_Witness ==
  /\ CalledWithMode("VALID")
  /\ Accepted(node)
  /\ NumSpatial = 1
  /\ CallKernel(1) > 1
  /\ node.params.rhs_dilation[1] > 1
  /\ ValidQuotient(1, (CallKernel(1) - 1) * node.params.rhs_dilation[1] + 1) < 0
  /\ NodeOut(1) = 0

\* The sizes the shape rule's group checks read, for a bound node n.
LhsBatch(n) == n.lhs_shape[n.params.dimension_numbers.lhs_spec[1] + 1]

LhsFeature(n) == n.lhs_shape[n.params.dimension_numbers.lhs_spec[2] + 1]

RhsOut(n) == n.rhs_shape[n.params.dimension_numbers.rhs_spec[1] + 1]

RhsIn(n) == n.rhs_shape[n.params.dimension_numbers.rhs_spec[2] + 1]

Rejected(n) == n.bound /\ ~n.out.ok /\ n.out.shape = <<>> /\ n.out.err # ""

GroupScenario(rhs_in) ==
  CallOf(<<2, 4, 5, 5>>, <<4, rhs_in, 3, 3>>,
         Args(<<1, 1>>, Symbolic("VALID"), None, None, DimNumsNone, 2, 1))

\* C9: the shape rule raises, and returns no shape, whenever
\* feature_group_count does not divide the lhs feature size or the quotient
\* is not the rhs input-feature size; lhs (2,4,5,5) with
\* feature_group_count 2 is accepted with rhs input-feature size 2 and
\* rejected with 4.
C9_FeatureGroupMismatchRejected ==
  /\ \A n \in Nodes :
       (/\ n.bound
        /\ n.params.feature_group_count > 0
        /\ \/ LhsFeature(n) % n.params.feature_group_count # 0
           \/ LhsFeature(n) \div n.params.feature_group_count # RhsIn(n))
       => Rejected(n)
  /\ (pc # "call" /\ call = GroupScenario(2)) => Accepted(node)
  /\ (pc # "call" /\ call = GroupScenario(4)) => Rejected(node)

\* C9 witness: the documented call with rhs input-feature size 4, rejected
\* on the quotient.
C9_Witness ==
  /\ pc = "failed"
  /\ call = GroupScenario(4)
  /\ Rejected(node)
  /\ LhsFeature(node) % node.params.feature_group_count = 0

\* The inputs C10 lists.
BadGroupsOrRanks(n) ==
  LET fgc == n.params.feature_group_count
      bgc == n.params.batch_group_count
  IN  \/ Len(n.lhs_shape) # Len(n.rhs_shape)
      \/ fgc <= 0
      \/ bgc <= 0
      \/ fgc > 1 /\ bgc > 1
      \/ fgc > 0 /\ RhsOut(n) % fgc # 0
      \/ bgc > 0 /\ RhsOut(n) % bgc # 0
      \/ bgc > 0 /\ LhsBatch(n) % bgc # 0
      \/ Len(n.params.dimension_numbers.rhs_spec) - 2
           # Len(n.params.window_strides)

\* C10: the shape rule raises, and returns no shape, whenever a group count
\* is not positive, both exceed 1, the rhs output-feature size is not a
\* multiple of either, the lhs batch size is not a multiple of
\* batch_group_count, the ranks differ, or the number of spatial axes is
\* not len(window_strides).
C10_BadGroupsOrRanksRejected ==
  \A n \in Nodes : (n.bound /\ BadGroupsOrRanks(n)) => Rejected(n)

\* C10 witness: a call with both group counts above 1 that passes every
\* other check.
C10_Witness ==
  /\ pc = "failed"
  /\ node.bound
  /\ node.params.feature_group_count > 1
  /\ node.params.batch_group_count > 1
  /\ Len(node.lhs_shape) = Len(node.rhs_shape)
  /\ LhsFeature(node) > 0
  /\ LhsFeature(node) = RhsIn(node) * node.params.feature_group_count
  /\ RhsOut(node) > 0
  /\ RhsOut(node) % node.params.feature_group_count = 0
  /\ RhsOut(node) % node.params.batch_group_count = 0
  /\ LhsBatch(node) > 0
  /\ LhsBatch(node) % node.params.batch_group_count = 0
  /\ Len(node.params.window_strides) = 1
  /\ Rejected(node)

\* x with axis fixed at j; x itself when axis is -1 (no batch axis).
Slice(x, axis, j) ==
  IF axis = -1 THEN x
  ELSE LET shape == Delete(x.shape, axis)
       IN  Array(shape,
                 [f \in Elements(shape) |->
                    x.at[Ravel(Insert(Unravel(f, shape), axis, j), x.shape)]])

\* The batched operands, their elements told apart.
BatchedLhs == Operand(FALSE, "lhs", node.lhs_shape, batch.lhs_bdim, batch.k)

BatchedRhs == Operand(FALSE, "rhs", node.rhs_shape, batch.rhs_bdim, batch.rhs_k)

\* The unbatched convolution of slice j of the batched operands.
UnbatchedOnSlice(j) ==
  ConvValues(Slice(BatchedLhs, batch.lhs_bdim, j),
             Slice(BatchedRhs, batch.rhs_bdim, j), node)

\* C5: slice j of the batching rule's result, taken along the returned
\* batch axis, is the unbatched convolution of slice j of the batched
\* operand(s) and the other operand: element for element the same sum of
\* products of the same operand elements.
C5_VectorizationEquivalence ==
  (rule = "batch" /\ result.value.ok) =>
    LET out == VectorizedOf(FALSE).value
    IN  \A j \in 0..(batch.k - 1) :
          /\ Slice(out, result.bdim, j).shape = node.out.shape
          /\ Slice(out, result.bdim, j).at = UnbatchedOnSlice(j)

\* C5 witness: a grouped convolution batched on both operands whose last
\* slice has an element that sums more than one product.
C5_Witness ==
  /\ rule = "batch"
  /\ result.value.ok
  /\ batch.lhs_bdim # -1
  /\ batch.rhs_bdim # -1
  /\ batch.k > 1
  /\ node.params.batch_group_count > 1
  /\ Prod(node.out.shape) > 0
  /\ \E f \in Elements(node.out.shape) :
       /\ Cardinality(UnbatchedOnSlice(batch.k - 1)[f]) > 1
       /\ Slice(VectorizedOf(FALSE).value, result.bdim, batch.k - 1).at[f]
            = UnbatchedOnSlice(batch.k - 1)[f]

----------------------------------------------------------------------------
(* The canonicalizer of dimension numbers.                                 *)

\* conv_dimension_numbers was called on its own and has returned or raised.
Canonicalized == call.op = "conv_dimension_numbers" /\ pc # "call"

GivenDimNums == call.args.dimension_numbers

Returned(dn) == [ok |-> TRUE, dn |-> dn, err |-> ""]

NCHW == DimNumsStr(<<"N", "C", "H", "W">>, <<"O", "I", "H", "W">>,
                   <<"N", "C", "H", "W">>)

\* C11: a ConvDimensionNumbers is returned unchanged whatever the shapes,
\* so canonicalizing the result again changes nothing; and on two shapes of
\* rank 4 the strings ("NCHW", "OIHW", "NCHW") give the permutations None
\* gives, each the identity (0, 1, 2, 3).
C11_CanonicalizerRoundTrip ==
  Canonicalized =>
    /\ GivenDimNums.form = "canonical" =>
         /\ canonicalized = Returned(GivenDimNums)
         /\ ConvDimensionNumbers(call.lhs_shape, call.rhs_shape,
                                 canonicalized.dn) = canonicalized
    /\ (GivenDimNums = NCHW /\ Len(call.lhs_shape) = 4
          /\ Len(call.rhs_shape) = 4) =>
         /\ canonicalized
              = ConvDimensionNumbers(call.lhs_shape, call.rhs_shape,
                                     DimNumsNone)
         /\ canonicalized
              = Returned(DimNums(<<0, 1, 2, 3>>, <<0, 1, 2, 3>>,
                                 <<0, 1, 2, 3>>))

\* C11 witness: ("NCHW", "OIHW", "NCHW") canonicalized on operands of rank 4.
C11_Witness ==
  /\ Canonicalized
  /\ GivenDimNums = NCHW
  /\ Len(call.lhs_shape) = 4
  /\ Len(call.rhs_shape) = 4
  /\ canonicalized.ok

IsStringTriple(d) ==
  /\ d.form = "sequence"
  /\ Len(d.elts) = 3
  /\ \A i \in 1..3 : d.elts[i].is_str

\* The three strings, each as its characters.
GivenStrings == [i \in 1..3 |-> GivenDimNums.elts[i].chars]

Failed(res) == ~res.ok /\ res.err # "" /\ res.dn = DimNumsNone

\* C12 as stated: on operands of different ranks the canonicalizer raises
\* for None, for a triple of strings and for a ConvDimensionNumbers.
C12_RankMismatchAlwaysFails ==
  (/\ Canonicalized
   /\ Len(call.lhs_shape) # Len(call.rhs_shape)
   /\ \/ GivenDimNums.form \in {"none", "canonical"}
      \/ IsStringTriple(GivenDimNums))
    => Failed(canonicalized)

\* C12, amended: on operands of different ranks the canonicalizer raises
\* for None and for a triple of strings; a ConvDimensionNumbers is returned
\* unchanged, the ranks not being compared.
C12_RankMismatchFailsUnlessCanonical ==
  (Canonicalized /\ Len(call.lhs_shape) # Len(call.rhs_shape)) =>
    /\ (GivenDimNums.form = "none" \/ IsStringTriple(GivenDimNums))
         => Failed(canonicalized)
    /\ GivenDimNums.form = "canonical"
         => canonicalized = Returned(GivenDimNums)

\* C12 witness: three strings, valid for the rank of lhs, refused because
\* rhs has another rank.
C12_Witness ==
  /\ Canonicalized
  /\ Len(call.lhs_shape) # Len(call.rhs_shape)
  /\ IsStringTriple(GivenDimNums)
  /\ \A i \in 1..3 : Len(GivenStrings[i]) = Len(call.lhs_shape)
  /\ ConvGeneralPermutations(GivenStrings).ok
  /\ Failed(canonicalized)

\* The string holds each of the two reserved characters exactly once.
HoldsOnce(str, reserved) ==
  \A c \in reserved : \E i \in 1..Len(str) :
    str[i] = c /\ \A j \in 1..Len(str) : str[j] = c => j = i

NoRepeat(str) == \A i, j \in 1..Len(str) : str[i] = str[j] => i = j

\* The characters of the string that are not its reserved ones.
SpatialLabels(str, reserved) == {str[i] : i \in 1..Len(str)} \ reserved

\* The conditions C13 lists, the rank being that of both operands.
ValidStringForm ==
  /\ IsStringTriple(GivenDimNums)
  /\ \A i \in 1..3 :
       /\ Len(GivenStrings[i]) = Len(call.lhs_shape)
       /\ Len(GivenStrings[i]) = Len(call.rhs_shape)
       /\ NoRepeat(GivenStrings[i])
  /\ HoldsOnce(GivenStrings[1], {"N", "C"})
  /\ HoldsOnce(GivenStrings[2], {"O", "I"})
  /\ HoldsOnce(GivenStrings[3], {"N", "C"})
  /\ SpatialLabels(GivenStrings[1], {"N", "C"})
       = SpatialLabels(GivenStrings[2], {"O", "I"})
  /\ SpatialLabels(GivenStrings[2], {"O", "I"})
       = SpatialLabels(GivenStrings[3], {"N", "C"})

\* C13: given a list or tuple, the canonicalizer returns dimension numbers
\* exactly when it holds three strings, each as long as the rank, lhs and
\* out with N and C once each, rhs with O and I once each, no character
\* twice in a string, and the same spatial characters in all three; every
\* other list or tuple raises and nothing is returned.
C13_StringFormAcceptedIffValid ==
  (Canonicalized /\ GivenDimNums.form = "sequence") =>
    /\ canonicalized.ok <=> ValidStringForm
    /\ ~canonicalized.ok => Failed(canonicalized)

\* C13 witness: three strings that pass every check but the last, out
\* naming a spatial character lhs and rhs do not have.
C13_Witness ==
  /\ Canonicalized
  /\ IsStringTriple(GivenDimNums)
  /\ \A i \in 1..3 :
       /\ Len(GivenStrings[i]) = Len(call.lhs_shape)
       /\ NoRepeat(GivenStrings[i])
  /\ Len(call.lhs_shape) = Len(call.rhs_shape)
  /\ HoldsOnce(GivenStrings[1], {"N", "C"})
  /\ HoldsOnce(GivenStrings[2], {"O", "I"})
  /\ HoldsOnce(GivenStrings[3], {"N", "C"})
  /\ SpatialLabels(GivenStrings[1], {"N", "C"})
       = SpatialLabels(GivenStrings[2], {"O", "I"})
  /\ SpatialLabels(GivenStrings[2], {"O", "I"})
       # SpatialLabels(GivenStrings[3], {"N", "C"})
  /\ Failed(canonicalized)

\* The character the string carries on the axis at canonical position i
\* (0-based) of spec.
LabelAt(str, spec, i) == str[spec[i + 1] + 1]

\* C14: for a valid triple of strings each returned spec is a permutation
\* of the axes with the batch-like axis (N, O, N) first and the
\* feature-like axis (C, I, C) second; rhs_spec[2:] runs through the
\* spatial axes of rhs in the order of the rhs string; and at every
\* position i >= 2 the three specs name axes that carry one and the same
\* spatial character.
C14_SpatialAxesFollowRhsOrder ==
  (Canonicalized /\ GivenDimNums.form = "sequence" /\ canonicalized.ok) =>
    LET dn == canonicalized.dn
        rank == Len(call.lhs_shape)
    IN  /\ IsPerm(dn.lhs_spec, rank)
        /\ IsPerm(dn.rhs_spec, rank)
        /\ IsPerm(dn.out_spec, rank)
        /\ LabelAt(GivenStrings[1], dn.lhs_spec, 0) = "N"
        /\ LabelAt(GivenStrings[1], dn.lhs_spec, 1) = "C"
        /\ LabelAt(GivenStrings[2], dn.rhs_spec, 0) = "O"
        /\ LabelAt(GivenStrings[2], dn.rhs_spec, 1) = "I"
        /\ LabelAt(GivenStrings[3], dn.out_spec, 0) = "N"
        /\ LabelAt(GivenStrings[3], dn.out_spec, 1) = "C"
        /\ \A i, j \in 2..(rank - 1) :
             i < j => dn.rhs_spec[i + 1] < dn.rhs_spec[j + 1]
        /\ \A i \in 2..(rank - 1) :
             /\ LabelAt(GivenStrings[1], dn.lhs_spec, i)
                  = LabelAt(GivenStrings[2], dn.rhs_spec, i)
             /\ LabelAt(GivenStrings[3], dn.out_spec, i)
                  = LabelAt(GivenStrings[2], dn.rhs_spec, i)
             /\ LabelAt(GivenStrings[2], dn.rhs_spec, i)
                  \notin {"N", "C", "O", "I"}

\* C14 witness: a valid triple whose lhs and out strings order the spatial
\* characters differently from each other.
C14_Witness ==
  /\ Canonicalized
  /\ GivenDimNums.form = "sequence"
  /\ canonicalized.ok
  /\ Len(call.lhs_shape) = 4
  /\ canonicalized.dn.lhs_spec[3] > canonicalized.dn.lhs_spec[4]
  /\ canonicalized.dn.out_spec[3] < canonicalized.dn.out_spec[4]

----------------------------------------------------------------------------
(* The transposed convolution.                                             *)

\* conv_transpose was called and has returned or raised.
Transposed == call.op = "conv_transpose" /\ pc # "call"

\* C15 as stated: in the transposed convolution with strides (2, 2),
\* kernel size 3 and padding "SAME" the padding of each spatial axis is
\* (1, 0).
C15_ScenarioPaddingAsStated ==
  (Transposed /\ call = TransposeScenario) =>
    /\ node.bound
    /\ node.params.padding = << <<1, 0>>, <<1, 0>> >>

\* C15, amended: in the transposed convolution with strides (2, 2), kernel
\* size 3 and padding "SAME" the padding of each spatial axis is (2, 1).
C15_ScenarioPadding ==
  (Transposed /\ call = TransposeScenario) =>
    /\ node.bound
    /\ node.params.padding = << <<2, 1>>, <<2, 1>> >>

\* C15 witness: the transposed convolution of the scenario, bound with
\* window strides 1 and lhs dilation 2, doubles both spatial sizes.
C15_Witness ==
  /\ pc = "bound"
  /\ call = TransposeScenario
  /\ node.params.window_strides = <<1, 1>>
  /\ node.params.lhs_dilation = <<2, 2>>
  /\ node.out.shape = <<1, 16, 16, 4>>

\* A transposed convolution over one spatial axis in the default layout
\* (NHC, HIO, NHC) with padding "SAME" or "VALID", a non-empty input and
\* kernel, and as many lhs features as the kernel reads.
InvertibleTransposed ==
  /\ Transposed
  /\ call.args.dimension_numbers = DimNumsNone
  /\ Len(call.lhs_shape) = 3
  /\ Len(call.rhs_shape) = 3
  /\ Len(call.args.strides) = 1
  /\ call.args.padding.mode \in {"SAME", "VALID"}
  /\ call.lhs_shape[2] >= 1
  /\ call.rhs_shape[1] >= 1
  /\ call.lhs_shape[3]
       = call.rhs_shape[IF call.args.transpose_kernel THEN 3 ELSE 2]

\* The forward convolution of an input of spatial size m with the kernel
\* size, dilation, stride and padding mode of the call.
ForwardOf(m) ==
  ConvGeneralDilated(<<1, 1, m>>, <<1, 1, call.rhs_shape[1]>>,
                     Args(call.args.strides, call.args.padding, None,
                          call.args.rhs_dilation, DimNumsNone, 1, 1))

\* C16: a transposed convolution with padding "SAME" or "VALID" of an
\* input of size n >= 1 with a kernel of effective size k >= 1 and stride
\* s >= 1 is bound with unit window strides, lhs dilation s and the padding
\* _conv_transpose_padding gives, and its output has a spatial size m of
\* which the forward convolution with that kernel, stride and padding mode
\* has spatial size n.
C16_TransposeInvertsForwardShape ==
  InvertibleTransposed =>
    /\ Accepted(node)
    /\ node.params.window_strides = <<1>>
    /\ node.params.lhs_dilation = call.args.strides
    /\ Accepted(ForwardOf(node.out.shape[2]))
    /\ ForwardOf(node.out.shape[2]).out.shape[3] = call.lhs_shape[2]

\* C16 witness: padding "VALID", the largest input, a kernel longer than
\* the stride; the output is longer than the input.
C16_Witness ==
  /\ InvertibleTransposed
  /\ call.args.padding.mode = "VALID"
  /\ call.lhs_shape[2] = MaxIn
  /\ call.rhs_shape[1] > call.args.strides[1]
  /\ Accepted(node)
  /\ node.out.shape[2] > call.lhs_shape[2]

NoDefaultError == "ValueError: No 4+ dimensional dimension_number defaults."

\* The canonical form of the default layouts: (NC, IO, NC),
\* (NHC, HIO, NHC), (NHWC, HWIO, NHWC) and (NHWDC, HWDIO, NHWDC).
DefaultLayout(rank) ==
  CASE rank = 2 -> DimNums(<<0, 1>>, <<1, 0>>, <<0, 1>>)
    [] rank = 3 -> DimNums(<<0, 2, 1>>, <<2, 1, 0>>, <<0, 2, 1>>)
    [] rank = 4 -> DimNums(<<0, 3, 1, 2>>, <<3, 2, 0, 1>>, <<0, 3, 1, 2>>)
    [] rank = 5 -> DimNums(<<0, 4, 1, 2, 3>>, <<4, 3, 0, 1, 2>>,
                           <<0, 4, 1, 2, 3>>)

\* C17: conv_transpose called without dimension_numbers takes a default
\* layout for operands of rank 2, 3, 4 and 5 and for no other rank; for
\* every rank above 5 it raises, for want of a default, and nothing is
\* bound; called with dimension_numbers it does not raise for want of a
\* default whatever the rank.
C17_DefaultLayoutsForRanksTwoToFive ==
  Transposed =>
    LET rank == Len(call.lhs_shape)
        same_rank == Len(call.rhs_shape) = rank
        no_dimension_numbers == call.args.dimension_numbers.form = "none"
    IN  /\ (no_dimension_numbers /\ same_rank /\ rank \in 2..5) =>
             /\ node.out.err # NoDefaultError
             /\ node.bound => node.params.dimension_numbers
                                = DefaultLayout(rank)
        /\ (no_dimension_numbers /\ rank \notin 2..5) => ~node.bound
        /\ (no_dimension_numbers /\ same_rank /\ rank > 5) =>
             node.out.err = NoDefaultError
        /\ ~no_dimension_numbers => node.out.err # NoDefaultError

\* C17 witness: operands of rank 5 and no dimension_numbers, bound in the
\* layout (NHWDC, HWDIO, NHWDC).
C17_Witness ==
  /\ Transposed
  /\ call.args.dimension_numbers.form = "none"
  /\ Len(call.lhs_shape) = 5
  /\ Accepted(node)
  /\ node.params.dimension_numbers = DefaultLayout(5)

----------------------------------------------------------------------------
(* The rules.                                                              *)

\* The cotangent of the node's output, which has the shape of the output,
\* is empty along a spatial axis.
CotangentEmptyAlongSpatialAxis ==
  \E i \in 2..(Len(node.out.shape) - 1) :
    node.out.shape[node.params.dimension_numbers.out_spec[i + 1] + 1] = 0

\* C18: when the cotangent has size zero along a spatial axis the rhs
\* transpose rule returns None: it binds no convolution and raises
\* nothing.
C18_EmptyCotangentGivesNone ==
  (rule = "transpose_rhs" /\ CotangentEmptyAlongSpatialAxis) =>
    /\ pc = "done"
    /\ result.is_none
    /\ ~result.conv.bound
    /\ result.conv = NoConv
    /\ result.value.err = ""

\* C18 witness: a cotangent with batch entries and features but no
\* spatial positions, of a convolution with a non-empty kernel.
C18_Witness ==
  /\ rule = "transpose_rhs"
  /\ CotangentEmptyAlongSpatialAxis
  /\ LhsBatch(node) > 0
  /\ RhsOut(node) > 0
  /\ Prod(node.rhs_shape) > 0
  /\ result.is_none

\* A tuple of (low, high) pairs of integers.
IsExplicitPairs(padding) ==
  /\ DOMAIN padding = 1..Len(padding)
  /\ \A i \in 1..Len(padding) :
       /\ DOMAIN padding[i] = 1..2
       /\ padding[i][1] \in Int
       /\ padding[i][2] \in Int

\* The user called conv_general_dilated or conv_transpose and the call has
\* returned or raised.
Called == call.op \in {"conv_general_dilated", "conv_transpose"} /\ pc # "call"

\* The dimension_numbers of the call cannot be canonicalized: they are no
\* ConvDimensionNumbers and the operands differ in rank, or they are
\* neither None nor three valid strings.
Uncanonical ==
  /\ GivenDimNums.form # "canonical"
  /\ \/ Len(call.lhs_shape) # Len(call.rhs_shape)
     \/ GivenDimNums.form = "other"
     \/ GivenDimNums.form = "sequence" /\ ~ValidStringForm

\* The padding of the call is a string that names no padding mode.
Unresolvable ==
  IsStr(call.args.padding) /\ call.args.padding.mode \notin {"SAME", "VALID"}

\* C19: whichever path binds a convolution - conv_general_dilated,
\* conv_transpose, either transpose rule, any branch of the batching rule -
\* the padding bound is a tuple of (low, high) pairs, never a string, and
\* the dimension numbers bound are a ConvDimensionNumbers; and a call whose
\* dimension numbers cannot be canonicalized or whose padding cannot be
\* resolved binds nothing.
C19_BoundCanonicalAndExplicit ==
  /\ \A n \in Nodes :
       n.bound =>
         /\ IsExplicitPairs(n.params.padding)
         /\ n.params.dimension_numbers.form = "canonical"
  /\ (Called /\ (Uncanonical \/ Unresolvable)) =>
       /\ ~node.bound
       /\ node.out.err # ""
       /\ ~result.conv.bound

\* C19 witness: conv_general_dilated called with three strings and padding
\* "SAME" on an input the kernel does not divide; the node bound holds the
\* permutations and the pairs.
C19_Witness ==
  /\ Called
  /\ call.op = "conv_general_dilated"
  /\ GivenDimNums.form = "sequence"
  /\ call.args.padding.mode = "SAME"
  /\ node.bound
  /\ IsExplicitPairs(node.params.padding)
  /\ Len(node.params.padding) > 0
  /\ node.params.padding[1][1] + node.params.padding[1][2] > 0
  /\ node.params.dimension_numbers.form = "canonical"
  /\ node.params.dimension_numbers # Identity3

\* The batching rule ran with a batch axis on both operands and bound a
\* convolution.
BothBatched ==
  /\ rule = "batch"
  /\ batch.lhs_bdim # -1
  /\ batch.rhs_bdim # -1
  /\ result.conv.bound

\* C20 as stated: with both operands batched, batch size k, the emitted
\* convolution has batch_group_count + k batch groups when the node's
\* batch_group_count exceeds 1 and feature_group_count + k feature groups
\* otherwise, the other group count being the node's.
C20_GroupCountIncrementedByBatchSize ==
  BothBatched =>
    IF node.params.batch_group_count > 1
    THEN /\ result.conv.params.batch_group_count
              = node.params.batch_group_count + batch.k
         /\ result.conv.params.feature_group_count
              = node.params.feature_group_count
    ELSE /\ result.conv.params.feature_group_count
              = node.params.feature_group_count + batch.k
         /\ result.conv.params.batch_group_count
              = node.params.batch_group_count

\* C20, amended: with both operands batched, batch size k, the emitted
\* convolution has batch_group_count * k batch groups when the node's
\* batch_group_count exceeds 1 and feature_group_count * k feature groups
\* otherwise, the other group count being the node's.
C20_GroupCountMultipliedByBatchSize ==
  BothBatched =>
    IF node.params.batch_group_count > 1
    THEN /\ result.conv.params.batch_group_count
              = node.params.batch_group_count * batch.k
         /\ result.conv.params.feature_group_count
              = node.params.feature_group_count
    ELSE /\ result.conv.params.feature_group_count
              = node.params.feature_group_count * batch.k
         /\ result.conv.params.batch_group_count
              = node.params.batch_group_count

\* C20 witness: a feature-grouped convolution batched on both operands
\* with the largest batch; the emitted convolution is accepted.
C20_Witness ==
  /\ BothBatched
  /\ batch.k = MaxBatch
  /\ node.params.feature_group_count = MaxGroup
  /\ result.conv.params.feature_group_count = MaxGroup * MaxBatch
  /\ Accepted(result.conv)
  /\ result.value.ok
  /\ Prod(result.value.shape) > 0

----------------------------------------------------------------------------
(* C21: the axes the both-batched case folds the batch axes into.          *)

\* The batching rule ran with a batch axis on both operands.
BothBatchedRan ==
  /\ rule = "batch"
  /\ batch.lhs_bdim # -1
  /\ batch.rhs_bdim # -1

\* shape with k batch entries folded into the axis at position axis.
FoldedInto(shape, axis, k) == [shape EXCEPT ![axis + 1] = @ * k]

\* The rule failed on its assertion and emitted no convolution.
AssertionFailed ==
  /\ ~result.conv.bound
  /\ ~result.value.ok
  /\ result.value.err = "AssertionError"

\* The emitted convolution takes the node's lhs with the batch folded into
\* lhs_axis and the node's rhs with the batch folded into rhs_spec[0].
EmittedFoldedInto(lhs_axis) ==
  /\ result.conv.bound
  /\ result.conv.lhs_shape = FoldedInto(node.lhs_shape, lhs_axis, batch.k)
  /\ result.conv.rhs_shape
       = FoldedInto(node.rhs_shape,
                    node.params.dimension_numbers.rhs_spec[1], batch.k)

\* C21 as stated: with both operands batched, whatever the group counts,
\* the emitted convolution's lhs is the node's lhs with the batch folded
\* into lhs_spec[0] and its rhs the node's rhs with the batch folded into
\* rhs_spec[0]; batch axes of different sizes fail the rule's assertion.
C21_LhsBatchFoldedIntoBatchRoleAxis ==
  BothBatchedRan =>
    IF batch.k # batch.rhs_k THEN AssertionFailed
    ELSE EmittedFoldedInto(node.params.dimension_numbers.lhs_spec[1])

\* C21, amended: with both operands batched, the emitted convolution's
\* lhs is the node's lhs with the batch folded into lhs_spec[0] when
\* batch_group_count exceeds 1 and into lhs_spec[1] otherwise, and its rhs
\* the node's rhs with the batch folded into rhs_spec[0]; batch axes of
\* different sizes fail the rule's assertion.
C21_LhsBatchFoldedByGroupKind ==
  BothBatchedRan =>
    IF batch.k # batch.rhs_k THEN AssertionFailed
    ELSE EmittedFoldedInto(
           IF node.params.batch_group_count > 1
           THEN node.params.dimension_numbers.lhs_spec[1]
           ELSE node.params.dimension_numbers.lhs_spec[2])

\* C21 witness: an ungrouped convolution batched on both operands with the
\* largest batch, the lhs batch and feature sizes differing, so that the
\* two folds give different shapes; the emitted convolution is accepted.
C21_Witness ==
  /\ BothBatchedRan
  /\ batch.k = MaxBatch
  /\ batch.rhs_k = MaxBatch
  /\ node.params.batch_group_count = 1
  /\ LhsBatch(node) # LhsFeature(node)
  /\ LhsFeature(result.conv) = LhsFeature(node) * MaxBatch
  /\ LhsBatch(result.conv) = LhsBatch(node)
  /\ Accepted(result.conv)

----------------------------------------------------------------------------
(* C22, C23: the convolutions the transpose rules emit.                    *)

\* dilate on one axis: (size - 1) * dilation + 1 when size > 0, else 0.
Dilated(size, dilation) == IF size = 0 THEN 0 ELSE (size - 1) * dilation + 1

\* The spatial sizes of the node's input, kernel and output, dilated by
\* lhs_dilation, rhs_dilation and window_strides, on spatial axis i.
DilatedInput(i) ==
  Dilated(node.lhs_shape[node.params.dimension_numbers.lhs_spec[i + 2] + 1],
          node.params.lhs_dilation[i])

DilatedKernel(i) ==
  Dilated(node.rhs_shape[node.params.dimension_numbers.rhs_spec[i + 2] + 1],
          node.params.rhs_dilation[i])

DilatedOutput(i) ==
  Dilated(node.out.shape[node.params.dimension_numbers.out_spec[i + 2] + 1],
          node.params.window_strides[i])

\* The group count of the node that exceeds 1, else 1.
OriginalGroupCount ==
  IF node.params.feature_group_count > 1 THEN node.params.feature_group_count
  ELSE IF node.params.batch_group_count > 1
  THEN node.params.batch_group_count
  ELSE 1

\* rhs_spec with its first two entries swapped.
SwappedRhsSpec ==
  LET rhs_spec == node.params.dimension_numbers.rhs_spec
  IN  [i \in 1..Len(rhs_spec) |->
         IF i = 1 THEN rhs_spec[2] ELSE IF i = 2 THEN rhs_spec[1]
         ELSE rhs_spec[i]]

\* C22: the convolution the lhs transpose rule emits has window_strides =
\* the node's lhs_dilation, lhs_dilation = the node's window_strides, the
\* node's rhs_dilation, batch_group_count 1, feature_group_count = the
\* node's group count that exceeds 1 (else 1), dimension numbers (out_spec,
\* rhs_spec with its first two entries swapped, lhs_spec), and on every
\* spatial axis pad_before = dilated_kernel - pad_low - 1 and pad_after =
\* dilated_input + dilated_kernel - 1 - dilated_output - pad_before.
C22_TransposeLhsEmits ==
  rule = "transpose_lhs" =>
    LET p == node.params
        e == result.conv.params
    IN  /\ result.conv.bound
        /\ e.window_strides = p.lhs_dilation
        /\ e.lhs_dilation = p.window_strides
        /\ e.rhs_dilation = p.rhs_dilation
        /\ e.batch_group_count = 1
        /\ e.feature_group_count = OriginalGroupCount
        /\ e.dimension_numbers.form = "canonical"
        /\ e.dimension_numbers.lhs_spec = p.dimension_numbers.out_spec
        /\ e.dimension_numbers.rhs_spec = SwappedRhsSpec
        /\ e.dimension_numbers.out_spec = p.dimension_numbers.lhs_spec
        /\ Len(e.padding) = NumSpatial
        /\ \A i \in 1..NumSpatial :
             LET pad_before == DilatedKernel(i) - p.padding[i][1] - 1
             IN  /\ e.padding[i][1] = pad_before
                 /\ e.padding[i][2] = DilatedInput(i) + DilatedKernel(i) - 1
                                      - DilatedOutput(i) - pad_before

\* C22 witness: the lhs transpose of a batch-grouped call whose stride and
\* lhs dilation differ and whose low and high padding differ; the emitted
\* convolution has the two exchanged and is accepted.
C22_Witness ==
  /\ rule = "transpose_lhs"
  /\ node.params.batch_group_count > 1
  /\ node.params.window_strides[1] > node.params.lhs_dilation[1]
  /\ node.params.rhs_dilation[1] > 1
  /\ node.params.padding[1][1] > node.params.padding[1][2]
  /\ Prod(node.out.shape) > 0
  /\ DilatedOutput(1) > 1
  /\ result.conv.params.window_strides = node.params.lhs_dilation
  /\ result.conv.params.lhs_dilation = node.params.window_strides
  /\ result.conv.params.feature_group_count = node.params.batch_group_count
  /\ Accepted(result.conv)

\* C23: the convolution the rhs transpose rule emits has window_strides =
\* the node's rhs_dilation, rhs_dilation = the node's window_strides, the
\* node's lhs_dilation, the two group counts exchanged (feature groups
\* G > 1 become batch groups G with feature_group_count 1, batch groups
\* B > 1 become feature groups B with batch_group_count 1), and on every
\* spatial axis pad_before = pad_low and pad_after = (dilated_output -
\* dilated_input) + (dilated_kernel - pad_before - 1).
C23_TransposeRhsEmits ==
  (rule = "transpose_rhs" /\ ~result.is_none) =>
    LET p == node.params
        e == result.conv.params
    IN  /\ result.conv.bound
        /\ e.window_strides = p.rhs_dilation
        /\ e.rhs_dilation = p.window_strides
        /\ e.lhs_dilation = p.lhs_dilation
        /\ p.feature_group_count > 1 =>
             /\ e.batch_group_count = p.feature_group_count
             /\ e.feature_group_count = 1
        /\ p.batch_group_count > 1 =>
             /\ e.feature_group_count = p.batch_group_count
             /\ e.batch_group_count = 1
        /\ (p.feature_group_count = 1 /\ p.batch_group_count = 1) =>
             /\ e.feature_group_count = 1
             /\ e.batch_group_count = 1
        /\ Len(e.padding) = NumSpatial
        /\ \A i \in 1..NumSpatial :
             /\ e.padding[i][1] = p.padding[i][1]
             /\ e.padding[i][2] = (DilatedOutput(i) - DilatedInput(i))
                                  + (DilatedKernel(i) - p.padding[i][1] - 1)

\* C23 witness: the rhs transpose of a feature-grouped call whose stride
\* and rhs dilation differ and whose low and high padding differ; the
\* emitted convolution is batch-grouped, has the two exchanged and is
\* accepted.
C23_Witness ==
  /\ rule = "transpose_rhs"
  /\ ~result.is_none
  /\ node.params.feature_group_count > 1
  /\ node.params.window_strides[1] > node.params.rhs_dilation[1]
  /\ node.params.lhs_dilation[1] > 1
  /\ node.params.padding[1][1] > node.params.padding[1][2]
  /\ DilatedOutput(1) > 1
  /\ DilatedKernel(1) > 1
  /\ result.conv.params.window_strides = node.params.rhs_dilation
  /\ result.conv.params.rhs_dilation = node.params.window_strides
  /\ result.conv.params.batch_group_count = node.params.feature_group_count
  /\ result.conv.params.feature_group_count = 1
  /\ Accepted(result.conv)

----------------------------------------------------------------------------
(* C24: conv_transpose_shape_tuple against the shape rule.                 *)

\* conv_transpose_shape_tuple was asked for the shape of a transposed
\* convolution of the claim's kind: the kernel as it is, of size at least
\* one on every spatial axis, rhs_dilation 1, padding "SAME", "VALID" or
\* explicit pairs, and the convolution the wrapper emitted accepted by the
\* shape rule.
ShapeTupleAsked ==
  /\ rule = "conv_transpose_shape_tuple"
  /\ Accepted(node)
  /\ ~call.args.transpose_kernel
  /\ call.args.padding.mode \in {"SAME", "VALID", "EXPLICIT"}
  /\ AllOnes(node.params.rhs_dilation)
  /\ \A i \in 1..NumSpatial : CallKernel(i) >= 1

\* C24 as stated: for every lhs spatial size >= 0, kernel size >= 1,
\* stride >= 1 and padding "SAME", "VALID" or explicit,
\* conv_transpose_shape_tuple returns the shape the shape rule computes for
\* the convolution conv_transpose emits.
C24_ShapeTupleAgreesWithShapeRule ==
  ShapeTupleAsked => result.value = Ok(node.out.shape)

\* Where the two agree: on every spatial axis the lhs is not empty and the
\* padded, dilated lhs is no shorter than the kernel less one.
C24_ShapeTupleAgreesWhenNothingClamped ==
  (/\ ShapeTupleAsked
   /\ \A i \in 1..NumSpatial :
        /\ CallIn(i) >= 1
        /\ (CallIn(i) - 1) * call.args.strides[i] + 1
             + node.params.padding[i][1] + node.params.padding[i][2]
             >= CallKernel(i) - 1)
  => result.value = Ok(node.out.shape)

\* The shapes differ: an empty lhs axis, stride 2, kernel size 1, "SAME".
C24_EmptyInputDiverges ==
  /\ ShapeTupleAsked
  /\ call.args.padding.mode = "SAME"
  /\ CallIn(1) = 0
  /\ CallKernel(1) = 1
  /\ call.args.strides[1] = 2
  /\ NodeOut(1) = 1
  /\ result.value.ok
  /\ result.value.shape # node.out.shape

----------------------------------------------------------------------------
(* C25: when the rhs transpose rule returns None.                          *)

\* The cotangent has an axis of size zero, of whatever role.
CotangentEmpty ==
  \E a \in 1..Len(node.out.shape) : node.out.shape[a] = 0

\* The rule returned None and bound nothing, or bound a convolution.
NoneOrConvolution(none) ==
  IF none THEN result.is_none /\ ~result.conv.bound
  ELSE ~result.is_none /\ result.conv.bound

\* C25 as stated: the rhs transpose rule returns None exactly when the
\* cotangent has size zero along a spatial axis; when every spatial axis
\* is non-zero, the batch or feature axis being empty or not, it emits a
\* convolution.
C25_NoneIffEmptySpatialAxis ==
  rule = "transpose_rhs" => NoneOrConvolution(CotangentEmptyAlongSpatialAxis)

\* C25, amended: the rhs transpose rule returns None exactly when the
\* cotangent has size zero along some axis, spatial, batch or feature;
\* when every axis is non-zero it emits a convolution.
C25_NoneIffEmptyCotangent ==
  rule = "transpose_rhs" => NoneOrConvolution(CotangentEmpty)

\* C25 witness: a cotangent with spatial positions and features but no
\* batch entries; the rule returns None.
C25_Witness ==
  /\ rule = "transpose_rhs"
  /\ ~CotangentEmptyAlongSpatialAxis
  /\ node.out.shape[node.params.dimension_numbers.out_spec[1] + 1] = 0
  /\ node.out.shape[node.params.dimension_numbers.out_spec[2] + 1] > 0
  /\ Prod(node.rhs_shape) > 0
  /\ result.is_none
  /\ result.conv = NoConv

----------------------------------------------------------------------------
(* C26: a padding mode together with an lhs_dilation.                      *)

\* conv_general_dilated was called with a string for padding; the call has
\* returned or raised.
CalledWithString ==
  /\ call.op = "conv_general_dilated"
  /\ pc # "call"
  /\ IsStr(call.args.padding)

\* The lhs_dilation of the call has an entry other than 1.
LhsDilated ==
  /\ ~call.args.lhs_dilation.none
  /\ \E i \in 1..Len(call.args.lhs_dilation.val) :
       call.args.lhs_dilation.val[i] # 1

\* C26: conv_general_dilated called with a string padding and an
\* lhs_dilation with an entry other than 1 binds nothing and raises, and
\* what it raises is not the padding resolution's error even when the
\* string names no mode; called with "SAME" or "VALID", canonicalizable
\* dimension numbers and lhs_dilation left out or all ones, it binds the
\* primitive with unit lhs_dilation and one resolved (low, high) pair per
\* spatial axis.
C26_StringPaddingWithLhsDilation ==
  CalledWithString =>
    IF LhsDilated
    THEN /\ ~node.bound
         /\ node.out.err # ""
         /\ node.out.err # "RuntimeError: unrecognized padding type"
         /\ ~Uncanonical =>
              node.out.err = "ValueError: string padding with lhs_dilation"
    ELSE (~Uncanonical /\ ~Unresolvable) =>
           /\ node.bound
           /\ AllOnes(node.params.lhs_dilation)
           /\ Len(node.params.lhs_dilation) = NumSpatial
           /\ IsExplicitPairs(node.params.padding)
           /\ Len(node.params.padding) = NumSpatial

\* C26 witness: "SAME" with lhs_dilation (1, 2) on valid operands; the
\* call raises the ValueError and binds nothing.
C26_Witness ==
  /\ CalledWithString
  /\ call.args.padding.mode = "SAME"
  /\ call.args.lhs_dilation = Some(<<1, MaxStride>>)
  /\ ~Uncanonical
  /\ pc = "failed"
  /\ ~node.bound
  /\ node.out.err = "ValueError: string padding with lhs_dilation"

----------------------------------------------------------------------------
(* C27: the kernel extent of the padding resolution and of the shape rule. *)

\* A padding mode was resolved: conv_general_dilated or conv_transpose was
\* called with "SAME" or "VALID" and bound the primitive.
ModeResolved ==
  /\ Called
  /\ IsStr(call.args.padding)
  /\ call.args.padding.mode \in {"SAME", "VALID"}
  /\ node.bound

\* The effective kernel size the call resolved its padding with, on
\* spatial axis i.
EffectiveKernelUsed(i) ==
  IF call.op = "conv_transpose"
  THEN EffectiveKSize(CallKernel(i), node.params.rhs_dilation[i])
  ELSE EffectiveRhsDim(CallKernel(i), node.params.rhs_dilation[i])

\* C27 as stated: for every kernel size >= 0 and rhs_dilation >= 1 the
\* effective kernel size the padding of a call is resolved with is the
\* dilated kernel size of the shape rule, (size - 1) * dilation + 1 when
\* size > 0 and 0 otherwise.
C27_EffectiveKernelIsDilatedKernel ==
  ModeResolved =>
    \A i \in 1..NumSpatial :
      EffectiveKernelUsed(i)
        = DilateDim(CallKernel(i), node.params.rhs_dilation[i])

\* The two agree wherever the kernel is not empty.
C27_EffectiveKernelIsDilatedKernelNonEmpty ==
  ModeResolved =>
    \A i \in 1..NumSpatial :
      CallKernel(i) >= 1 =>
        EffectiveKernelUsed(i)
          = DilateDim(CallKernel(i), node.params.rhs_dilation[i])

\* The two differ and it shows: conv_transpose with an empty kernel,
\* rhs_dilation 2, stride 1 and "SAME" pads by (-2, 0) and returns one
\* position for two.
C27_EmptyKernelDiverges ==
  /\ ModeResolved
  /\ call = ConvTransposeOf(<<1, 2, 1>>, <<0, 1, 1>>, <<1>>,
                            Symbolic("SAME"), Some(<<2>>), DimNumsNone,
                            FALSE)
  /\ EffectiveKernelUsed(1) = -1
  /\ node.params.padding = << <<-2, 0>> >>
  /\ node.out.shape = <<1, 1, 1>>

====
